---- MODULE Spec2Model ----
(***************************************************************************)
(* Model of svg-text-checker: the markup scanner (svgParser.ts), the       *)
(* accessibility predicates, and the suggestion pipeline of IAClient       *)
(* (iaClient.ts).  Document text and markup are TLA+ strings; the regular  *)
(* expressions of the source are translated character by character.        *)
(***************************************************************************)
EXTENDS Integers, Sequences, FiniteSets, TLC

(***************************************************************************)
(* Bounds of the model.                                                    *)
(***************************************************************************)
MaxKids == 2
MaxAttrs == 2
MaxPieces == 3
MaxCalls == 2

(***************************************************************************)
(* Characters and strings, as JavaScript's RegExp and String see them.     *)
(***************************************************************************)
Uppers == "ABCDEFGHIJKLMNOPQRSTUVWXYZ"
Lowers == "abcdefghijklmnopqrstuvwxyz"
Digits == "0123456789"

CharAt(s, i) == SubSeq(s, i, i)

\* the characters of a string
CharsOf(s) == { CharAt(s, k) : k \in 1..Len(s) }

UpperSet == CharsOf(Uppers)
LowerSet == CharsOf(Lowers)
DigitSet == CharsOf(Digits)

\* least and greatest element of a non-empty set of integers
MinOf(S) == CHOOSE x \in S : \A y \in S : x <= y
MaxOf(S) == CHOOSE x \in S : \A y \in S : x >= y

\* least element of a set of positions, 0 (no position) if it is empty
MinOr0(S) == IF S = {} THEN 0 ELSE MinOf(S)

\* the lower-case letter of an upper-case letter
LowerOf ==
    [ c \in UpperSet |->
        CharAt(Lowers, CHOOSE k \in 1..Len(Uppers) : CharAt(Uppers, k) = c) ]

LowerChar(c) == IF c \in UpperSet THEN LowerOf[c] ELSE c

\* String.prototype.toLowerCase (computed by halves)
RECURSIVE toLowerCase(_)
toLowerCase(s) ==
    IF Len(s) = 0 THEN ""
    ELSE IF Len(s) = 1 THEN LowerChar(s)
    ELSE LET h == Len(s) \div 2
         IN toLowerCase(SubSeq(s, 1, h)) \o toLowerCase(SubSeq(s, h + 1, Len(s)))

\* the strings ss[lo], ..., ss[hi] joined (computed by halves)
RECURSIVE ConcatRange(_, _, _)
ConcatRange(ss, lo, hi) ==
    IF lo > hi THEN ""
    ELSE IF lo = hi THEN ss[lo]
    ELSE LET h == (lo + hi) \div 2
         IN ConcatRange(ss, lo, h) \o ConcatRange(ss, h + 1, hi)

Concat(ss) == ConcatRange(ss, 1, Len(ss))

\* \w of a JavaScript regular expression
WordChars == UpperSet \cup LowerSet \cup DigitSet \cup {"_"}
IsWordChar(c) == c \in WordChars

\* \s of a JavaScript regular expression (the characters the model uses)
IsSpace(c) == c \in {" ", "\t", "\n", "\r"}

IsQuote(c) == c \in {"\"", "'"}

\* the literal lit occurs in s at (1-based) position i
StartsAt(s, i, lit) ==
    /\ i >= 1
    /\ i + Len(lit) - 1 <= Len(s)
    /\ SubSeq(s, i, i + Len(lit) - 1) = lit

\* the same under the regex flag i; lit is given in lower case
StartsAtCI(s, i, lit) ==
    /\ i >= 1
    /\ i + Len(lit) - 1 <= Len(s)
    /\ LowerChar(CharAt(s, i)) = CharAt(lit, 1)
    /\ toLowerCase(SubSeq(s, i, i + Len(lit) - 1)) = lit

\* \b between positions i-1 and i of s
WordBoundary(s, i) ==
    (i >= 2 /\ i - 1 <= Len(s) /\ IsWordChar(CharAt(s, i - 1)))
      # (i >= 1 /\ i <= Len(s) /\ IsWordChar(CharAt(s, i)))

\* first position >= i of s that holds no whitespace (Len(s)+1 if none): \s*
RECURSIVE SkipWs(_, _)
SkipWs(s, i) ==
    IF i <= Len(s) /\ IsSpace(CharAt(s, i)) THEN SkipWs(s, i + 1) ELSE i

\* String.prototype.indexOf(lit, from) with 1-based positions; 0 for -1
IndexOf(s, lit, from) ==
    MinOr0({ i \in from..(Len(s) - Len(lit) + 1) : StartsAt(s, i, lit) })

includes(s, lit) == IndexOf(s, lit, 1) # 0

(***************************************************************************)
(* svgParser.ts: the scanner.  Offsets in the node records are the         *)
(* 0-based offsets of the source (end exclusive); string positions in the  *)
(* operators are 1-based.                                                  *)
(***************************************************************************)

\* String.prototype.slice(a, b) with 0-based a, b (0 <= a, b <= length)
slice(s, a, b) == SubSeq(s, a + 1, b)

\* SVG_OPEN_RE = /<svg\b[^>]*>/gi tried at position i: the position of the
\* closing ">" of the match, 0 if the expression does not match at i
SVG_OPEN_RE_at(t, i) ==
    IF StartsAtCI(t, i, "<svg") /\ WordBoundary(t, i + 4)
    THEN IndexOf(t, ">", i + 4)
    ELSE 0

\* leftmost position >= i where SVG_OPEN_RE matches, 0 if none
SVG_OPEN_RE_search(t, i) ==
    MinOr0({ j \in i..Len(t) : SVG_OPEN_RE_at(t, j) # 0 })

\* /<title[\s>]/i.test(inner)
hasTitleRe(inner) ==
    \E i \in 1..Len(inner) :
        /\ StartsAtCI(inner, i, "<title")
        /\ i + 6 <= Len(inner)
        /\ (IsSpace(CharAt(inner, i + 6)) \/ CharAt(inner, i + 6) = ">")

\* the desc test written with the title expression
hasDescRe_title(inner) == hasTitleRe(inner)

\* /<desc[\s>]/i.test(inner)
hasDescRe(inner) ==
    \E i \in 1..Len(inner) :
        /\ StartsAtCI(inner, i, "<desc")
        /\ i + 5 <= Len(inner)
        /\ (IsSpace(CharAt(inner, i + 5)) \/ CharAt(inner, i + 5) = ">")

\* \s* = \s* at position e of tag: the position just after it, 0 if there
\* is no match at e
EqAt(tag, e) ==
    IF e <= Len(tag) /\ CharAt(tag, e) = "=" THEN SkipWs(tag, e + 1) ELSE 0

\* name \s* = \s* at position i of tag (name in lower case, flag i): the
\* position just after the second \s*, 0 if there is no match at i
AttrEqAt(tag, i, name) ==
    IF ~StartsAtCI(tag, i, name) THEN 0 ELSE EqAt(tag, SkipWs(tag, i + Len(name)))

\* /aria-hidden\s*=\s*"true"/i.test(tag)
svgAriaHiddenRe(tag) ==
    \E i \in 1..Len(tag) :
        \E v \in {AttrEqAt(tag, i, "aria-hidden")} :
            v # 0 /\ StartsAtCI(tag, v, "\"true\"")

\* the loop body with the content cut before the closing tag
SvgNodeOf_inner(t, m, gt) ==
    LET openTagStart == m - 1
        openTagEnd   == gt
        closeIndex   == IndexOf(t, "</svg>", openTagEnd + 1) - 1
        inner        == slice(t, openTagEnd, closeIndex)
    IN [ start |-> openTagStart,
         end |-> closeIndex + 6,
         content |-> slice(t, openTagStart, closeIndex),
         hasTitle |-> hasTitleRe(inner),
         hasDesc |-> hasDescRe(inner),
         hasAriaHidden |-> svgAriaHiddenRe(slice(t, openTagStart, openTagEnd)),
         tagOpenRange |-> [start |-> openTagStart, end |-> openTagEnd] ]

\* the body of the while loop of findSvgNodes for the match at position m
\* (1-based) whose ">" is at position gt
SvgNodeOf(t, m, gt) ==
    LET openTagStart == m - 1
        openTagEnd   == gt
        closeAt      == IndexOf(t, "</svg>", openTagEnd + 1)
        closeIndex   == closeAt - 1
        end          == closeIndex + 6
        inner        == slice(t, openTagEnd, closeIndex)
        tag          == slice(t, openTagStart, openTagEnd)
    IN [ start |-> openTagStart,
         end |-> end,
         content |-> slice(t, openTagStart, end),
         hasTitle |-> hasTitleRe(inner),
         hasDesc |-> hasDescRe(inner),
         hasAriaHidden |-> svgAriaHiddenRe(tag),
         tagOpenRange |-> [start |-> openTagStart, end |-> openTagEnd] ]

\* the exec loop with the search resumed after the node instead of after
\* its opening tag
RECURSIVE findSvgLoop_skip(_, _, _)
findSvgLoop_skip(t, lastIndex, results) ==
    LET m == IF lastIndex > Len(t) THEN 0 ELSE SVG_OPEN_RE_search(t, lastIndex + 1)
    IN IF m = 0 THEN [results |-> results, lastIndex |-> 0]
       ELSE LET gt == SVG_OPEN_RE_at(t, m)
            IN IF IndexOf(t, "</svg>", gt + 1) = 0
               THEN findSvgLoop_skip(t, gt, results)
               ELSE findSvgLoop_skip(t, SvgNodeOf(t, m, gt).end,
                                     Append(results, SvgNodeOf(t, m, gt)))

\* the exec loop left with "break" at an opening tag that is never closed
RECURSIVE findSvgLoop_break(_, _, _)
findSvgLoop_break(t, lastIndex, results) ==
    LET m == IF lastIndex > Len(t) THEN 0 ELSE SVG_OPEN_RE_search(t, lastIndex + 1)
    IN IF m = 0 THEN [results |-> results, lastIndex |-> 0]
       ELSE LET gt == SVG_OPEN_RE_at(t, m)
            IN IF IndexOf(t, "</svg>", gt + 1) = 0
               THEN [results |-> results, lastIndex |-> gt]
               ELSE findSvgLoop_break(t, gt, Append(results, SvgNodeOf(t, m, gt)))

\* findSvgNodes: the exec loop, started with the lastIndex the shared
\* regular expression object holds; exec resets lastIndex to 0 on failure
RECURSIVE findSvgLoop(_, _, _)
findSvgLoop(t, lastIndex, results) ==
    LET m == IF lastIndex > Len(t) THEN 0 ELSE SVG_OPEN_RE_search(t, lastIndex + 1)
    IN IF m = 0 THEN [results |-> results, lastIndex |-> 0]
       ELSE LET gt == SVG_OPEN_RE_at(t, m)
            IN IF IndexOf(t, "</svg>", gt + 1) = 0
               THEN findSvgLoop(t, gt, results)
               ELSE findSvgLoop(t, gt, Append(results, SvgNodeOf(t, m, gt)))

findSvgNodes(t, lastIndex) == findSvgLoop(t, lastIndex, << >>)

\* needsAccessibility with the title and desc facts joined by "and"
needsAccessibility_and(node) ==
    ~node.hasAriaHidden /\ ~(node.hasTitle /\ node.hasDesc)

needsAccessibility(node) ==
    ~node.hasAriaHidden /\ ~(node.hasTitle \/ node.hasDesc)

\* IMG_RE = /<img\b[^>]*\/?>/gi tried at position i: the position of the
\* closing ">" of the match, 0 if the expression does not match at i
IMG_RE_at(t, i) ==
    IF StartsAtCI(t, i, "<img") /\ WordBoundary(t, i + 4)
    THEN IndexOf(t, ">", i + 4)
    ELSE 0

\* leftmost position >= i where IMG_RE matches, 0 if none
IMG_RE_search(t, i) ==
    MinOr0({ j \in i..Len(t) : IMG_RE_at(t, j) # 0 })

\* first position >= i of s that holds a quote character, 0 if none
NextQuote(s, i) == MinOr0({ j \in i..Len(s) : IsQuote(CharAt(s, j)) })

\* the quotes at v and q2 if they enclose min characters or more
Enclosing(v, q2, min) ==
    IF q2 # 0 /\ q2 - v - 1 >= min THEN <<v, q2>> ELSE <<0, 0>>

\* ["']([^"']{min,})["'] at position v of tag (v = 0: no position)
QuotedAt(tag, v, min) ==
    IF v # 0 /\ v <= Len(tag) /\ IsQuote(CharAt(tag, v))
    THEN Enclosing(v, NextQuote(tag, v + 1), min)
    ELSE <<0, 0>>

\* \bname\s*=\s*["']([^"']{min,})["'] tried at position i of tag: the
\* positions of the two quotes, <<0, 0>> if there is no match at i
QuotedAttrAt(tag, i, name, min) ==
    IF WordBoundary(tag, i) THEN QuotedAt(tag, AttrEqAt(tag, i, name), min)
    ELSE <<0, 0>>

\* the leftmost match from position i on
QuotedAttrSearch(tag, i, name, min) ==
    QuotedAttrAt(tag, MinOr0({ j \in i..Len(tag) :
                                 QuotedAttrAt(tag, j, name, min) # <<0, 0>> }),
                 name, min)

\* group 1 of a match m, none if there is no match
Group1(s, m, none) ==
    IF m # <<0, 0>> THEN SubSeq(s, m[1] + 1, m[2] - 1) ELSE none

\* tagContent.match(/\bsrc\s*=\s*["']([^"']+)["']/i)
srcMatch(tag) == QuotedAttrSearch(tag, 1, "src", 1)

\* tagContent.match(/\balt\s*=\s*["']([^"']*)["']/i)
altMatch(tag) == QuotedAttrSearch(tag, 1, "alt", 0)

\* /aria-hidden\s*=\s*["']true["']/i.test(tagContent)
imgAriaHiddenRe(tag) ==
    \E i \in 1..Len(tag) :
        \E v \in {AttrEqAt(tag, i, "aria-hidden")} :
           /\ v # 0 /\ v <= Len(tag)
           /\ IsQuote(CharAt(tag, v))
           /\ StartsAtCI(tag, v + 1, "true")
           /\ v + 5 <= Len(tag) /\ IsQuote(CharAt(tag, v + 5))

\* /role\s*=\s*["'](presentation|none)["']/i.test(tagContent)
imgRoleRe(tag) ==
    \E i \in 1..Len(tag) :
        \E v \in {AttrEqAt(tag, i, "role")} :
           /\ v # 0 /\ v <= Len(tag)
           /\ IsQuote(CharAt(tag, v))
           /\ \E w \in {"presentation", "none"} :
                 /\ StartsAtCI(tag, v + 1, w)
                 /\ v + 1 + Len(w) <= Len(tag)
                 /\ IsQuote(CharAt(tag, v + 1 + Len(w)))

\* the absent alt value (null of the source)
NullAlt == "<null>"

\* the body of the while loop of findImgNodes
ImgNodeOf(t, m, gt) ==
    LET tagStart   == m - 1
        tagEnd     == gt
        tagContent == slice(t, tagStart, tagEnd)
    IN [ start |-> tagStart,
         end |-> tagEnd,
         content |-> tagContent,
         src |-> Group1(tagContent, srcMatch(tagContent), ""),
         alt |-> Group1(tagContent, altMatch(tagContent), NullAlt),
         hasAlt |-> altMatch(tagContent) # <<0, 0>>,
         hasAriaHidden |-> imgAriaHiddenRe(tagContent),
         hasRole |-> imgRoleRe(tagContent),
         tagRange |-> [start |-> tagStart, end |-> tagEnd] ]

RECURSIVE findImgLoop(_, _, _)
findImgLoop(t, lastIndex, results) ==
    LET m == IF lastIndex > Len(t) THEN 0 ELSE IMG_RE_search(t, lastIndex + 1)
    IN IF m = 0 THEN [results |-> results, lastIndex |-> 0]
       ELSE LET gt == IMG_RE_at(t, m)
            IN findImgLoop(t, gt, Append(results, ImgNodeOf(t, m, gt)))

findImgNodes(t, lastIndex) == findImgLoop(t, lastIndex, << >>)

imgNeedsAccessibility(node) ==
    IF node.hasAriaHidden THEN FALSE
    ELSE IF node.hasRole THEN FALSE
    ELSE IF ~node.hasAlt THEN TRUE
    ELSE FALSE

(***************************************************************************)
(* JavaScript values as JSON.parse produces them, tagged by type:          *)
(*   [t |-> "str", s], [t |-> "num", n], [t |-> "bool", b], [t |-> "null"],*)
(*   [t |-> "undefined"], [t |-> "arr", e: sequence], [t |-> "obj", f:     *)
(*   function from the keys to the values].                                *)
(***************************************************************************)
Undefined == [t |-> "undefined"]
JNull == [t |-> "null"]
JStr(s) == [t |-> "str", s |-> s]
JBool(b) == [t |-> "bool", b |-> b]
JNum(n) == [t |-> "num", n |-> n]
JArr(e) == [t |-> "arr", e |-> e]
JObj(f) == [t |-> "obj", f |-> f]

\* ToBoolean
Truthy(v) ==
    CASE v.t = "str" -> v.s # ""
      [] v.t = "num" -> v.n # 0
      [] v.t = "bool" -> v.b
      [] v.t \in {"arr", "obj"} -> TRUE
      [] OTHER -> FALSE

\* a || b
OrElse(a, b) == IF Truthy(a) THEN a ELSE b

Nullish(v) == v.t \in {"null", "undefined"}

\* v.k for a value v that is neither null nor undefined
Prop(v, k) ==
    IF v.t = "obj" /\ k \in DOMAIN v.f THEN v.f[k] ELSE Undefined

\* v?.k
OptProp(v, k) == IF Nullish(v) THEN Undefined ELSE Prop(v, k)

\* v?.[0]
OptFirst(v) ==
    CASE v.t = "arr" /\ Len(v.e) >= 1 -> v.e[1]
      [] v.t = "str" /\ Len(v.s) >= 1 -> JStr(CharAt(v.s, 1))
      [] OTHER -> Undefined

ParseFail == [ok |-> FALSE, v |-> Undefined, i |-> 0]

\* digits of s from position i on: the position after the last one
RECURSIVE SkipDigits(_, _)
SkipDigits(s, i) ==
    IF i <= Len(s) /\ CharAt(s, i) \in DigitSet THEN SkipDigits(s, i + 1) ELSE i

DigitVal(c) == CHOOSE d \in 0..9 : CharAt("0123456789", d + 1) = c

RECURSIVE NatOf(_)
NatOf(ds) ==
    IF ds = "" THEN 0
    ELSE 10 * NatOf(SubSeq(ds, 1, Len(ds) - 1)) + DigitVal(CharAt(ds, Len(ds)))

\* the number of consecutive backslashes of s that end at position j,
\* counted no further back than position lo
BackslashRun(s, lo, j) ==
    IF j < lo \/ CharAt(s, j) # "\\" THEN 0
    ELSE MaxOf({ k \in 1..(j - lo + 1) : \A m \in (j - k + 1)..j : CharAt(s, m) = "\\" })

\* the character at position j is the second character of an escape
EscapedAt(s, lo, j) == BackslashRun(s, lo, j - 1) % 2 = 1

\* the character that position j of a JSON string stands for: the text of
\* an escape \" \\ \/ \n \t at its second character, nothing at its first
Unescaped(s, i, j) ==
    IF EscapedAt(s, i, j)
    THEN (CASE CharAt(s, j) = "n" -> "\n" [] CharAt(s, j) = "t" -> "\t"
            [] OTHER -> CharAt(s, j))
    ELSE IF CharAt(s, j) = "\\" THEN "" ELSE CharAt(s, j)

\* the characters from position i up to the closing quote at position q
\* (q = 0: there is none).  Returns [ok, s, i]: success, the text, the
\* position after the quote.
ParseCharsTo(s, i, q) ==
    IF q = 0 THEN [ok |-> FALSE, s |-> "", i |-> 0]
    ELSE IF \E j \in i..(q - 1) :
               \/ CharAt(s, j) \in {"\n", "\t", "\r"}
               \/ EscapedAt(s, i, j) /\ CharAt(s, j) \notin {"\"", "\\", "/", "n", "t"}
    THEN [ok |-> FALSE, s |-> "", i |-> 0]
    ELSE [ ok |-> TRUE,
           s |-> Concat([j \in 1..(q - i) |-> Unescaped(s, i, i + j - 1)]),
           i |-> q + 1 ]

\* the characters of a JSON string from position i (just after the opening
\* quote) up to its closing quote, escapes \" \\ \/ \n \t decoded
ParseChars(s, i) ==
    ParseCharsTo(s, i, MinOr0({ q \in i..Len(s) :
                                  CharAt(s, q) = "\"" /\ ~EscapedAt(s, i, q) }))

\* JSON.parse, for the JSON the model uses: objects, arrays, strings,
\* non-negative integers, true, false, null.  Each parser returns
\* [ok, v, i]: success, the value, the position after it.
RECURSIVE ParseValue(_, _), ParseValueAt(_, _), ParseObject(_, _), ParseArray(_, _)
RECURSIVE ParseMembers(_, _, _), ParseKey(_, _, _), ParseColon(_, _, _, _)
RECURSIVE ParseMember(_, _, _, _), ParseMemberEnd(_, _, _)
RECURSIVE ParseElements(_, _, _), ParseElement(_, _, _), ParseElementEnd(_, _, _)

ParseValue(s, i0) == ParseValueAt(s, SkipWs(s, i0))

ParseString(r) ==
    IF ~r.ok THEN ParseFail ELSE [ok |-> TRUE, v |-> JStr(r.s), i |-> r.i]

\* the digits of s from position i up to position e - 1
ParseNumber(s, i, e) ==
    IF CharAt(s, i) = "0" /\ e > i + 1 THEN ParseFail
    ELSE [ok |-> TRUE, v |-> JNum(NatOf(SubSeq(s, i, e - 1))), i |-> e]

ParseValueAt(s, i) ==
    IF i > Len(s) THEN ParseFail
    ELSE CASE CharAt(s, i) = "{" -> ParseObject(s, SkipWs(s, i + 1))
           [] CharAt(s, i) = "[" -> ParseArray(s, SkipWs(s, i + 1))
           [] CharAt(s, i) = "\"" -> ParseString(ParseChars(s, i + 1))
           [] CharAt(s, i) \in DigitSet -> ParseNumber(s, i, SkipDigits(s, i))
           [] StartsAt(s, i, "true") -> [ok |-> TRUE, v |-> JBool(TRUE), i |-> i + 4]
           [] StartsAt(s, i, "false") -> [ok |-> TRUE, v |-> JBool(FALSE), i |-> i + 5]
           [] StartsAt(s, i, "null") -> [ok |-> TRUE, v |-> JNull, i |-> i + 4]
           [] OTHER -> ParseFail

\* an object whose "{" is read, from position j on
ParseObject(s, j) ==
    IF j <= Len(s) /\ CharAt(s, j) = "}"
    THEN [ok |-> TRUE, v |-> JObj(<< >>), i |-> j + 1]
    ELSE ParseMembers(s, j, << >>)

\* an array whose "[" is read, from position j on
ParseArray(s, j) ==
    IF j <= Len(s) /\ CharAt(s, j) = "]"
    THEN [ok |-> TRUE, v |-> JArr(<< >>), i |-> j + 1]
    ELSE ParseElements(s, j, << >>)

\* members of an object from position i (a key is expected there); acc
\* holds the members read so far, a repeated key keeps its last value
ParseMembers(s, i, acc) ==
    IF i > Len(s) \/ CharAt(s, i) # "\"" THEN ParseFail
    ELSE ParseKey(s, ParseChars(s, i + 1), acc)

\* k: the key as ParseChars read it
ParseKey(s, k, acc) ==
    IF ~k.ok THEN ParseFail ELSE ParseColon(s, k.s, SkipWs(s, k.i), acc)

ParseColon(s, key, colon, acc) ==
    IF colon > Len(s) \/ CharAt(s, colon) # ":" THEN ParseFail
    ELSE ParseMember(s, key, ParseValue(s, colon + 1), acc)

\* r: the member's value as ParseValue read it
ParseMember(s, key, r, acc) ==
    IF ~r.ok THEN ParseFail
    ELSE ParseMemberEnd(s, SkipWs(s, r.i), (key :> r.v) @@ acc)

ParseMemberEnd(s, n, acc2) ==
    IF n > Len(s) THEN ParseFail
    ELSE IF CharAt(s, n) = "}" THEN [ok |-> TRUE, v |-> JObj(acc2), i |-> n + 1]
    ELSE IF CharAt(s, n) = "," THEN ParseMembers(s, SkipWs(s, n + 1), acc2)
    ELSE ParseFail

\* elements of an array from position i (a value is expected there)
ParseElements(s, i, acc) == ParseElement(s, ParseValue(s, i), acc)

ParseElement(s, r, acc) ==
    IF ~r.ok THEN ParseFail
    ELSE ParseElementEnd(s, SkipWs(s, r.i), Append(acc, r.v))

ParseElementEnd(s, n, acc2) ==
    IF n > Len(s) THEN ParseFail
    ELSE IF CharAt(s, n) = "]" THEN [ok |-> TRUE, v |-> JArr(acc2), i |-> n + 1]
    ELSE IF CharAt(s, n) = "," THEN ParseElements(s, n + 1, acc2)
    ELSE ParseFail

\* r read to the end of s, but for white space
ParsedWhole(s, r) ==
    IF r.ok /\ SkipWs(s, r.i) = Len(s) + 1
    THEN [ok |-> TRUE, v |-> r.v]
    ELSE [ok |-> FALSE, v |-> Undefined]

\* JSON.parse(s): [ok |-> FALSE] stands for the SyntaxError it throws
JSONparse(s) == ParsedWhole(s, ParseValue(s, 1))

RECURSIVE StrOfNat(_)
StrOfNat(n) ==
    IF n < 10 THEN CharAt("0123456789", n + 1)
    ELSE StrOfNat(n \div 10) \o CharAt("0123456789", (n % 10) + 1)

\* the text of a string inside a JSON string literal
EscapeChar(c) ==
    CASE c = "\"" -> "\\\""
      [] c = "\\" -> "\\\\"
      [] c = "\n" -> "\\n"
      [] c = "\t" -> "\\t"
      [] OTHER -> c

Escape(s) == Concat([j \in 1..Len(s) |-> EscapeChar(CharAt(s, j))])

\* JSON.stringify(v) for a value JSON.parse produced
RECURSIVE JSONstringify(_), StringifyMembers(_), StringifyElements(_)
JSONstringify(v) ==
    CASE v.t = "str" -> "\"" \o Escape(v.s) \o "\""
      [] v.t = "num" -> StrOfNat(v.n)
      [] v.t = "bool" -> IF v.b THEN "true" ELSE "false"
      [] v.t = "null" -> "null"
      [] v.t = "arr" -> "[" \o StringifyElements(v.e) \o "]"
      [] v.t = "obj" -> "{" \o StringifyMembers(v.f) \o "}"
      [] OTHER -> ""

StringifyMembers(f) ==
    IF DOMAIN f = {} THEN ""
    ELSE LET k    == CHOOSE k \in DOMAIN f : TRUE
             rest == [x \in DOMAIN f \ {k} |-> f[x]]
         IN "\"" \o Escape(k) \o "\":" \o JSONstringify(f[k])
            \o (IF DOMAIN rest = {} THEN "" ELSE "," \o StringifyMembers(rest))

StringifyElements(e) ==
    IF e = << >> THEN ""
    ELSE JSONstringify(Head(e))
         \o (IF Len(e) = 1 THEN "" ELSE "," \o StringifyElements(Tail(e)))

(***************************************************************************)
(* svgRenderer.ts and iaClient.ts: provider detection and the parsing of   *)
(* a provider's response.                                                  *)
(***************************************************************************)

\* detectAIProvider with the endpoint compared as it is written
detectAIProvider_asWritten(endpoint) ==
    IF includes(endpoint, "openai") \/ includes(endpoint, "api.openai") THEN "openai"
    ELSE IF includes(endpoint, "anthropic") \/ includes(endpoint, "claude") THEN "claude"
    ELSE IF includes(endpoint, "google") \/ includes(endpoint, "gemini")
            \/ includes(endpoint, "generativelanguage") THEN "gemini"
    ELSE "unknown"

detectAIProvider(endpoint) ==
    LET lower == toLowerCase(endpoint)
    IN IF includes(lower, "openai") \/ includes(lower, "api.openai") THEN "openai"
       ELSE IF includes(lower, "anthropic") \/ includes(lower, "claude") THEN "claude"
       ELSE IF includes(lower, "google") \/ includes(lower, "gemini")
               \/ includes(lower, "generativelanguage") THEN "gemini"
       ELSE "unknown"

\* last position <= i of the character c in s, 0 if none
LastIndexOfChar(s, c, i) ==
    IF \E j \in 1..i : CharAt(s, j) = c
    THEN MaxOf({ j \in 1..i : CharAt(s, j) = c }) ELSE 0

\* a field of IAResponseSuggestion read from a parsed value: the string
\* itself; a truthy value that is no string is kept as its JSON text
StrOf(v) == IF v.t = "str" THEN v.s ELSE JSONstringify(v)

NoSuggestion ==
    [isDecorative |-> FALSE, titleText |-> "", descText |-> "", wcagAnalysis |-> Undefined]

\* a function that threw: the value is of no use
Threw == [ok |-> FALSE, value |-> NoSuggestion]

Returned(sugg) == [ok |-> TRUE, value |-> sugg]

\* the suggestion made of the object parsed with the WCAG form taken for
\* an object that has conformidade and tipoImagem
suggestionOf_two(parsed) ==
    LET conformidade == Prop(parsed, "conformidade")
        tipoImagem   == Prop(parsed, "tipoImagem")
        recomendacao == Prop(parsed, "recomendacao")
    IN IF Truthy(conformidade) /\ Truthy(tipoImagem)
       THEN [ isDecorative |-> Prop(tipoImagem, "classificacao") = JStr("Decorativa"),
              titleText |-> StrOf(OrElse(Prop(recomendacao, "altText"), JStr(""))),
              descText |-> StrOf(OrElse(Prop(recomendacao, "descricaoLonga"), JStr(""))),
              wcagAnalysis |->
                  JObj( "conformidade" :> conformidade
                        @@ "tipoImagem" :> tipoImagem
                        @@ "codigoSugerido" :> Prop(parsed, "codigoSugerido") ) ]
       ELSE [ isDecorative |-> Truthy(Prop(parsed, "isDecorative")),
              titleText |-> StrOf(OrElse(Prop(parsed, "titleText"), JStr(""))),
              descText |-> StrOf(OrElse(Prop(parsed, "descText"), JStr(""))),
              wcagAnalysis |-> Undefined ]

\* the suggestion parseWCAGResponse makes of the object parsed: the WCAG
\* form if it has its three members, the legacy form otherwise
suggestionOf(parsed) ==
    LET conformidade == Prop(parsed, "conformidade")
        tipoImagem   == Prop(parsed, "tipoImagem")
        recomendacao == Prop(parsed, "recomendacao")
    IN IF Truthy(conformidade) /\ Truthy(tipoImagem) /\ Truthy(recomendacao)
       THEN [ isDecorative |-> Prop(tipoImagem, "classificacao") = JStr("Decorativa"),
              titleText |-> StrOf(OrElse(Prop(recomendacao, "altText"), JStr(""))),
              descText |-> StrOf(OrElse(Prop(recomendacao, "descricaoLonga"), JStr(""))),
              wcagAnalysis |->
                  JObj( "conformidade" :> conformidade
                        @@ "tipoImagem" :> tipoImagem
                        @@ "codigoSugerido" :> Prop(parsed, "codigoSugerido") ) ]
       ELSE [ isDecorative |-> Truthy(Prop(parsed, "isDecorative")),
              titleText |-> StrOf(OrElse(Prop(parsed, "titleText"), JStr(""))),
              descText |-> StrOf(OrElse(Prop(parsed, "descText"), JStr(""))),
              wcagAnalysis |-> Undefined ]

\* p: what JSON.parse made of the match
parsedSuggestion(p) == IF ~p.ok THEN Threw ELSE Returned(suggestionOf(p.v))

\* text.match(/\{[\s\S]*\}/) parsed: the first "{" is at position first,
\* the last "}" at position last (0: there is none)
jsonMatchSuggestion(s, first, last) ==
    IF first = 0 \/ last < first THEN Threw
    ELSE parsedSuggestion(JSONparse(SubSeq(s, first, last)))

\* parseWCAGResponse(text); text is the JavaScript value handed in
parseWCAGResponse(text) ==
    IF text.t # "str" THEN Threw
    ELSE jsonMatchSuggestion(text.s, IndexOf(text.s, "{", 1),
                             LastIndexOfChar(text.s, "}", Len(text.s)))

\* data.choices?.[0]?.message?.content
ChoicesContent(data) ==
    OptProp(OptProp(OptFirst(Prop(data, "choices")), "message"), "content")

\* data.content?.[0]?.text
ContentText(data) == OptProp(OptFirst(Prop(data, "content")), "text")

\* data.candidates?.[0]?.content?.parts?.[0]?.text
CandidatesText(data) ==
    OptProp(OptFirst(OptProp(OptProp(OptFirst(Prop(data, "candidates")), "content"), "parts")), "text")

\* the content of a response by the provider's path; a provider that is
\* not known tries the paths in turn and ends with the response itself
responseContent(data, provider) ==
    CASE provider = "openai" -> OrElse(ChoicesContent(data), JStr(""))
      [] provider = "claude" -> OrElse(ContentText(data), JStr(""))
      [] provider = "gemini" -> OrElse(CandidatesText(data), JStr(""))
      [] OTHER ->
           OrElse(ChoicesContent(data),
             OrElse(ContentText(data),
               OrElse(Prop(data, "response"), JStr(JSONstringify(data)))))

\* d: what JSON.parse made of the body; a property read of null throws
parsedResponse(d, provider) ==
    IF ~d.ok THEN Threw
    ELSE IF Nullish(d.v) THEN Threw
    ELSE parseWCAGResponse(responseContent(d.v, provider))

\* parseVisionResponse(text, provider)
parseVisionResponse(text, provider) == parsedResponse(JSONparse(text), provider)

\* buildImgBase64Payload(base64, mimeType, provider)
buildImgBase64Payload(base64, mimeType, provider) ==
    CASE provider = "openai" ->
           JObj( "type" :> JStr("image_url")
                 @@ "image_url" :>
                      JObj( "url" :> JStr("data:" \o mimeType \o ";base64," \o base64)
                            @@ "detail" :> JStr("high") ) )
      [] provider = "claude" ->
           JObj( "type" :> JStr("image")
                 @@ "source" :>
                      JObj( "type" :> JStr("base64")
                            @@ "media_type" :> JStr(mimeType)
                            @@ "data" :> JStr(base64) ) )
      [] provider = "gemini" ->
           JObj( "inlineData" :>
                   JObj("mimeType" :> JStr(mimeType) @@ "data" :> JStr(base64)) )
      [] OTHER ->
           JObj( "type" :> JStr("image_url")
                 @@ "image_url" :>
                      JObj("url" :> JStr("data:" \o mimeType \o ";base64," \o base64)) )

\* buildImgVisionPayload(imageUrl, provider)
buildImgVisionPayload(imageUrl, provider) ==
    CASE provider = "openai" ->
           JObj( "type" :> JStr("image_url")
                 @@ "image_url" :> JObj("url" :> JStr(imageUrl)) )
      [] provider = "claude" ->
           JObj( "type" :> JStr("image")
                 @@ "source" :> JObj("type" :> JStr("url") @@ "url" :> JStr(imageUrl)) )
      [] provider = "gemini" ->
           JObj( "inline_data" :>
                   JObj("mime_type" :> JStr("image/jpeg") @@ "data" :> JStr(imageUrl)) )
      [] OTHER ->
           JObj( "type" :> JStr("image_url")
                 @@ "image_url" :> JObj("url" :> JStr(imageUrl)) )

(***************************************************************************)
(* iaClient.ts: the local heuristics.  The expressions carry the flag i;   *)
(* they are evaluated on the lower-cased text where only literals are      *)
(* involved.  The texts of the model hold no upper-case letter outside     *)
(* A..Z, so the model's toLowerCase and the flag i agree with JavaScript's.*)
(***************************************************************************)

\* least number of characters of a path that counts as complex
ComplexPathLen == 100

\* least length of the path data of the alternative heart test (exclusive)
HeartPathLen == 100

\* least length of the path data of the fill-colour test (exclusive)
FillPathLen == 50

\* String.prototype.trim
trim(s) ==
    IF \A i \in 1..Len(s) : IsSpace(CharAt(s, i)) THEN ""
    ELSE SubSeq(s, MinOf({ i \in 1..Len(s) : ~IsSpace(CharAt(s, i)) }),
                   MaxOf({ i \in 1..Len(s) : ~IsSpace(CharAt(s, i)) }))

\* \s+ at position i of s: the position after the run, 0 if there is none
SkipWs1(s, i) ==
    IF i >= 1 /\ i <= Len(s) /\ IsSpace(CharAt(s, i)) THEN SkipWs(s, i) ELSE 0

\* the position of the first ">" at or after i, Len(s) + 1 if there is none
TagStop(s, i) ==
    IF IndexOf(s, ">", i) = 0 THEN Len(s) + 1 ELSE IndexOf(s, ">", i)

\* (s.match(/<name\b/gi) || []).length
CountTag(s, name) ==
    Cardinality({ i \in 1..Len(s) :
                    /\ StartsAtCI(s, i, "<" \o name)
                    /\ WordBoundary(s, i + Len(name) + 1) })

\* /<text[\s>]/i.test(s)
hasTextRe(s) ==
    \E i \in 1..Len(s) :
        /\ StartsAtCI(s, i, "<text")
        /\ i + 5 <= Len(s)
        /\ (IsSpace(CharAt(s, i + 5)) \/ CharAt(s, i + 5) = ">")

\* the positions just after <tag[^>]+attr\s*=\s* over all the ways that
\* expression matches in s
TagAttrValues(s, tag, attr) ==
    UNION { { AttrEqAt(s, j, attr) :
                j \in (i + Len(tag) + 2)..(TagStop(s, i + Len(tag) + 1) - 1) } \ {0}
            : i \in { k \in 1..Len(s) : StartsAtCI(s, k, "<" \o tag) } }

\* the number of characters other than quotes from position i on
NonQuoteRun(s, i) ==
    (IF NextQuote(s, i) = 0 THEN Len(s) + 1 ELSE NextQuote(s, i)) - i

\* /<path[^>]+d\s*=\s*["'][^"']{100,}/i.test(s)
hasComplexPathRe(s) ==
    \E v \in TagAttrValues(s, "path", "d") :
        /\ v <= Len(s)
        /\ IsQuote(CharAt(s, v))
        /\ NonQuoteRun(s, v + 1) >= ComplexPathLen

IconSizes == {"24", "16", "20", "32", "48"}

\* /viewbox\s*=\s*["']?\s*0\s+0\s+(24|16|20|32|48)\s+(24|16|20|32|48)/i.test(s)
looksLikeIconRe(s) ==
    \E i \in 1..Len(s) :
      \E v \in {AttrEqAt(s, i, "viewbox")} :
      \E q \in {IF v # 0 /\ v <= Len(s) /\ IsQuote(CharAt(s, v))
                THEN SkipWs(s, v + 1) ELSE v} :
      \E a \in {IF StartsAt(s, q, "0") THEN SkipWs1(s, q + 1) ELSE 0} :
      \E b \in {IF StartsAt(s, a, "0") THEN SkipWs1(s, a + 1) ELSE 0} :
      \E c \in {IF \E z \in IconSizes : StartsAt(s, b, z)
                THEN SkipWs1(s, b + 2) ELSE 0} :
          \E z \in IconSizes : StartsAt(s, c, z)

\* /<circle[^>]+r\s*=\s*["']?\d/i.test(s) with the digits allowed given
circleRadiusRe(s, digits) ==
    \E v \in TagAttrValues(s, "circle", "r") :
      \E w \in {IF v <= Len(s) /\ IsQuote(CharAt(s, v)) THEN v + 1 ELSE v} :
          w <= Len(s) /\ CharAt(s, w) \in digits

\* /<line[^>]+/i.test(s)
lineTagRe(s) ==
    \E i \in 1..Len(s) :
        StartsAtCI(s, i, "<line") /\ i + 5 <= Len(s) /\ CharAt(s, i + 5) # ">"

\* iconPatterns.some(p => p.test(svgCode)) of mockHeuristic
looksLikeActionIconRe(svgCode, lower) ==
    \/ includes(lower, "stroke-width")
    \/ includes(lower, "stroke-linecap")
    \/ includes(lower, "stroke-linejoin")
    \/ includes(lower, "fill=\"none\"")
    \/ includes(lower, "fill=\"currentcolor\"")
    \/ circleRadiusRe(svgCode, DigitSet)
    \/ lineTagRe(svgCode)

\* group 1 of svgCode.match(/<text[^>]*>([^<]+)<\/text>/i) for the ">" at
\* position gt and the next "<" at position lt: the positions of its first
\* and last character, <<0, 0>> if that is no match
textGroup(s, gt, lt) ==
    IF lt > gt + 1 /\ StartsAtCI(s, lt, "</text>")
    THEN <<gt + 1, lt - 1>> ELSE <<0, 0>>

textGroupFrom(s, gt) ==
    IF gt = 0 THEN <<0, 0>> ELSE textGroup(s, gt, IndexOf(s, "<", gt + 1))

\* the expression tried at position i
textMatchAt(s, i) ==
    IF ~StartsAtCI(s, i, "<text") THEN <<0, 0>>
    ELSE textGroupFrom(s, IndexOf(s, ">", i + 5))

textMatch(s) ==
    textMatchAt(s, MinOr0({ i \in 1..Len(s) : textMatchAt(s, i) # <<0, 0>> }))

\* name\s*=\s*["']([^"']+)["'] tried at position i of s under the flag i:
\* the positions of the two quotes, <<0, 0>> if there is no match at i
ValueAt(s, i, name) == QuotedAt(s, AttrEqAt(s, i, name), 1)

\* the start of the leftmost match from position i on, 0 if there is none
ValueSearch(s, i, name) ==
    MinOr0({ j \in i..Len(s) : ValueAt(s, j, name) # <<0, 0>> })

\* group 1 of the leftmost match; "" stands for no match (the group of a
\* match is never empty)
ValueOf(s, name) == Group1(s, ValueAt(s, ValueSearch(s, 1, name), name), "")

\* the characters "." of a regular expression does not match
IsLineTerminator(c) == c \in {"\n", "\r"}

\* /a.*b/.test(s) for literals a and b
ThenRe(s, a, b) ==
    \E i \in 1..Len(s) :
        /\ StartsAt(s, i, a)
        /\ \E j \in (i + Len(a))..Len(s) :
              /\ StartsAt(s, j, b)
              /\ \A k \in (i + Len(a))..(j - 1) : ~IsLineTerminator(CharAt(s, k))

\* \.?\d* at position b of s: the position after it
FractionAt(s, b) == IF StartsAt(s, b, ".") THEN SkipDigits(s, b + 1) ELSE b

\* \d+\.?\d* at position a of s: the position after it, 0 if no match
DigitsAt(s, a) ==
    IF SkipDigits(s, a) = a THEN 0 ELSE FractionAt(s, SkipDigits(s, a))

\* -?\d+\.?\d* at position i of s: the position after it, 0 if no match
NumberAt(s, i) ==
    IF i = 0 THEN 0 ELSE DigitsAt(s, IF StartsAt(s, i, "-") THEN i + 1 ELSE i)

\* /21\.\d|l\s*-?\d+\.?\d*\s+-?\d+\.?\d*\s*[Cc]/i.test(p)
heartEndRe(p) ==
    \/ \E i \in 1..Len(p) :
          StartsAt(p, i, "21.") /\ i + 3 <= Len(p) /\ CharAt(p, i + 3) \in DigitSet
    \/ \E i \in 1..Len(p) :
          /\ LowerChar(CharAt(p, i)) = "l"
          /\ \E n1 \in {NumberAt(p, SkipWs(p, i + 1))} :
             \E w \in {IF n1 = 0 THEN 0 ELSE SkipWs1(p, n1)} :
             \E n2 \in {IF w = 0 THEN 0 ELSE NumberAt(p, w)} :
             \E e \in {IF n2 = 0 THEN 0 ELSE SkipWs(p, n2)} :
                 e # 0 /\ e <= Len(p) /\ LowerChar(CharAt(p, e)) = "c"

\* /^M\s*12\s/.test(p)
startsAtCentreRe(p) ==
    /\ StartsAt(p, 1, "M")
    /\ \E a \in {SkipWs(p, 2)} :
           StartsAt(p, a, "12") /\ a + 2 <= Len(p) /\ IsSpace(CharAt(p, a + 2))

HexSet == DigitSet \cup {"a", "b", "c", "d", "e", "f"}

\* the test of the fill colour in identifySpecificIcon:
\* /^#[ef][0-9][0-5a-f][0-9a-f]{3}$/i.test(c) ||
\* /^#[ef][0-9a-f]{5}$/i.test(c) && /e9|e5|f4|ff|d3|c6/.test(c)
redFillRe(c) ==
    \E l \in {toLowerCase(c)} :
       /\ Len(l) = 7
       /\ CharAt(l, 1) = "#"
       /\ CharAt(l, 2) \in {"e", "f"}
       /\ \A k \in 3..7 : CharAt(l, k) \in HexSet
       /\ \/ /\ CharAt(l, 3) \in DigitSet
             /\ CharAt(l, 4) \in {"0", "1", "2", "3", "4", "5", "a", "b", "c", "d", "e", "f"}
          \/ \E w \in {"e9", "e5", "f4", "ff", "d3", "c6"} : includes(c, w)

\* /viewBox\s*=\s*["']0\s+0\s+24\s+24["']/i.test(s)
viewBox24Re(s) ==
    \E i \in 1..Len(s) :
      \E v \in {AttrEqAt(s, i, "viewbox")} :
      \E a \in {IF v # 0 /\ v <= Len(s) /\ IsQuote(CharAt(s, v)) /\ StartsAt(s, v + 1, "0")
                THEN SkipWs1(s, v + 2) ELSE 0} :
      \E b \in {IF StartsAt(s, a, "0") THEN SkipWs1(s, a + 1) ELSE 0} :
      \E c \in {IF StartsAt(s, b, "24") THEN SkipWs1(s, b + 2) ELSE 0} :
          StartsAt(s, c, "24") /\ c + 2 <= Len(s) /\ IsQuote(CharAt(s, c + 2))

\* /\sA\s*\d/i.test(p)
arcRe(p) ==
    \E i \in 1..Len(p) :
        /\ IsSpace(CharAt(p, i))
        /\ i + 1 <= Len(p) /\ LowerChar(CharAt(p, i + 1)) = "a"
        /\ \E k \in {SkipWs(p, i + 2)} : k <= Len(p) /\ CharAt(p, k) \in DigitSet

\* the number of matches p of /d\s*=\s*["'][^"']+["']/gi in s from position
\* from on that satisfy arcRe(p)
RECURSIVE arcPaths(_, _), arcPathsFrom(_, _), arcPathsAfter(_, _, _)
arcPaths(s, from) == arcPathsFrom(s, ValueSearch(s, from, "d"))

\* m: the start of the next match, 0 if there is none
arcPathsFrom(s, m) ==
    IF m = 0 THEN 0 ELSE arcPathsAfter(s, m, ValueAt(s, m, "d")[2])

\* the match runs from position m to position end
arcPathsAfter(s, m, end) ==
    (IF arcRe(SubSeq(s, m, end)) THEN 1 ELSE 0) + arcPaths(s, end + 1)

\* ["']? at position v of s: the position after it (v = 0: no position)
UnquotedAt(s, v) ==
    IF v # 0 /\ v <= Len(s) /\ IsQuote(CharAt(s, v)) THEN v + 1 ELSE v

\* (\d+) at position w of s (w = 0: no position); "" if there is no digit
DigitRun(s, w) == IF w = 0 THEN "" ELSE SubSeq(s, w, SkipDigits(s, w) - 1)

\* name\s*=\s*["']?(\d+) (no flag) tried at position i of s: the digits of
\* group 1, "" if there is no match at i
CoordAt(s, i, name) ==
    IF ~StartsAt(s, i, name) THEN ""
    ELSE DigitRun(s, UnquotedAt(s, EqAt(s, SkipWs(s, i + Len(name)))))

\* line.match(/name\s*=\s*["']?(\d+)/): group 1 of the leftmost match, ""
\* if there is none
CoordOf(s, name) ==
    CoordAt(s, MinOr0({ i \in 1..Len(s) : CoordAt(s, i, name) # "" }), name)

\* the first ">" after <line is at position gt (0: there is none)
lineMatchTo(i, gt) == IF gt > i + 5 THEN gt ELSE 0

\* /<line[^>]+>/gi tried at position i: the position of the ">" , 0 if the
\* expression does not match at i
lineMatchAt(s, i) ==
    IF ~StartsAtCI(s, i, "<line") THEN 0
    ELSE lineMatchTo(i, IndexOf(s, ">", i + 5))

\* y1 && y2 && y1[1] === y2[1] as a count
sameY(y1, y2) == IF y1 # "" /\ y2 # "" /\ y1 = y2 THEN 1 ELSE 0

\* the number of matches of /<line[^>]+>/gi in s from position from on whose
\* y1 and y2 are given and equal
RECURSIVE horizontalLines(_, _), horizontalFrom(_, _), horizontalAfter(_, _, _)
horizontalLines(s, from) ==
    horizontalFrom(s, MinOr0({ i \in from..Len(s) : lineMatchAt(s, i) # 0 }))

\* m: the start of the next match, 0 if there is none
horizontalFrom(s, m) ==
    IF m = 0 THEN 0 ELSE horizontalAfter(s, SubSeq(s, m, lineMatchAt(s, m)),
                                         lineMatchAt(s, m))

\* line: the text of the match, which ends at position gt
horizontalAfter(s, line, gt) ==
    sameY(CoordOf(line, "y1"), CoordOf(line, "y2")) + horizontalLines(s, gt + 1)

\* one row of a keyword table: the literals (lits), the words between \b
\* (words), the pairs <<a, b>> of a(?!b) (notFollowed), of (?<!b)a
\* (notPreceded) and of a.*b (thens), all in lower case
Row(title, lits, words, notFollowed, notPreceded, thens) ==
    [ title |-> title, lits |-> lits, words |-> words,
      notFollowed |-> notFollowed, notPreceded |-> notPreceded, thens |-> thens ]

Lits(title, lits) == Row(title, lits, {}, {}, {}, {})

\* row.pattern.test(s), evaluated on lower = s.toLowerCase()
RowTest(row, lower) ==
    \/ \E w \in row.lits : includes(lower, w)
    \/ \E w \in row.words :
          \E i \in 1..Len(lower) :
              /\ StartsAt(lower, i, w)
              /\ WordBoundary(lower, i)
              /\ WordBoundary(lower, i + Len(w))
    \/ \E p \in row.notFollowed :
          \E i \in 1..Len(lower) :
              StartsAt(lower, i, p[1]) /\ ~StartsAt(lower, i + Len(p[1]), p[2])
    \/ \E p \in row.notPreceded :
          \E i \in 1..Len(lower) :
              StartsAt(lower, i, p[1]) /\ ~StartsAt(lower, i - Len(p[2]), p[2])
    \/ \E p \in row.thens : ThenRe(lower, p[1], p[2])

\* index of the first row of the table whose pattern matches, 0 if none
FirstRow(table, lower) ==
    MinOr0({ k \in 1..Len(table) : RowTest(table[k], lower) })

\* The first row lacks the alternative U+2764 (a heart), which a string of
\* the model cannot hold; no text of the model holds that character.
keywordPatterns ==
    << Lits("Adicionar aos favoritos", {"heart", "coração", "favorit", "love"}),
       Lits("Pesquisar", {"search", "magnif", "lupa", "busca", "pesquis"}),
       Lits("Abrir menu de navegação", {"menu", "hamburger", "nav"}),
       Lits("Fechar", {"close", "fechar", "dismiss", "×"}),
       Lits("Ver notificações", {"bell", "sino", "notif", "alert"}),
       Lits("Baixar arquivo", {"download", "baixar"}),
       Row("Enviar arquivo", {"upload"}, {}, {}, {}, {<<"enviar", "arquivo">>}),
       Lits("Editar", {"edit", "pencil", "lápis", "caneta", "editar"}),
       Lits("Excluir", {"trash", "delete", "lixo", "excluir", "remover"}),
       Lits("Abrir configurações", {"settings", "config", "gear", "engrenagem", "cog"}),
       Lits("Perfil do usuário", {"user", "profile", "person", "avatar", "usuário", "perfil"}),
       Lits("Ir para página inicial", {"home", "house", "casa", "início"}),
       Row("Adicionar novo item", {"plus", "adicionar"}, {}, {<<"add", "ress">>}, {}, {}),
       Lits("Confirmar", {"check", "confirm", "tick", "verificar", "confirmar"}),
       Lits("Enviar email", {"mail", "email", "envelope", "carta"}),
       Lits("Ligar", {"phone", "telefone", "call", "ligar"}),
       Row("Ver localização", {"location", "pin", "mapa"}, {},
           {<<"map", "le">>, <<"local", "host">>}, {}, {}),
       Row("Copiar link", {"chain", "corrente"}, {}, {}, {<<"link", "un">>}, {}),
       Lits("Compartilhar", {"share", "compartilhar"}),
       Row("Reproduzir", {"reproduzir", "iniciar"}, {"play"}, {}, {}, {}),
       Lits("Pausar", {"pause", "pausar"}),
       Row("Ajustar volume", {"volume", "sound", "audio"}, {}, {<<"som", "e">>}, {}, {}),
       Lits("Abrir pasta", {"folder", "pasta", "diretório"}),
       Row("Ver documento", {"document", "arquivo", "documento"}, {"file"}, {}, {}, {}),
       Lits("Segurança", {"lock", "secure", "cadeado", "seguro"}),
       Row("Visualizar", {"olho", "visualizar"}, {"eye"}, {<<"view", "box">>}, {}, {}),
       Lits("Salvar", {"save", "salvar", "disk", "disco"}),
       Row("Copiar", {"copiar", "clipboard"}, {"copy"}, {}, {}, {}),
       Row("Marcar como favorito", {"estrela", "destaque"}, {"star"}, {}, {}, {}),
       Lits("Atualizar", {"refresh", "reload", "atualizar", "sync"}),
       Row("Ver informações", {"informação"}, {"info"}, {}, {}, {}),
       Row("Obter ajuda", {"ajuda"}, {"help"}, {}, {}, {}),
       Lits("Abrir calendário", {"calendar", "calendário"}),
       Lits("Ver horário", {"clock", "relógio", "hora"}),
       Lits("Abrir conversa", {"chat", "message", "mensagem", "comment", "comentário"}),
       Lits("Ver carrinho de compras", {"cart", "carrinho", "shop", "compras"}),
       Lits("Sair da conta", {"logout", "signout", "sair"}),
       Lits("Fazer login", {"login", "signin", "entrar"}),
       Row("Anterior", {"previous", "anterior"}, {}, {}, {},
           {<<"arrow", "left">>, <<"chevron", "left">>}),
       Row("Próximo", {"next", "próximo"}, {}, {}, {},
           {<<"arrow", "right">>, <<"chevron", "right">>}),
       Lits("Imprimir", {"print", "imprimir"}),
       Lits("Anexar arquivo", {"attach", "anexo"}),
       Row("Curtir", {"curtir"}, {"like"}, {}, {}, {<<"thumb", "up">>}) >>

NoIcon == [found |-> FALSE, title |-> "", desc |-> ""]

Icon(title, desc) == [found |-> TRUE, title |-> title, desc |-> desc]

\* the decision with the chart-structure rules tried before the path and
\* fill signatures
specificIcon_chartFirst(svgCode, pathData, fillColor, lineCount, circleCount, pathCount, rectCount, textCount, row) ==
    IF rectCount >= 3 /\ lineCount >= 1
    THEN Icon("Gráfico de barras",
              "Gráfico de barras comparando valores de diferentes categorias.")
    ELSE IF rectCount >= 4 /\ lineCount = 0 /\ pathCount = 0
    THEN Icon("Gráfico de barras", "Gráfico de barras comparando valores.")
    ELSE IF pathCount >= 3 /\ arcPaths(svgCode, 1) >= 2
    THEN Icon("Gráfico de distribuição",
              "Gráfico circular mostrando proporções de diferentes categorias.")
    ELSE IF rectCount >= 2 /\ lineCount >= 1 /\ textCount >= 1
    THEN Icon("Diagrama de fluxo", "Diagrama mostrando etapas de um processo.")
    ELSE IF pathData # "" /\ (includes(pathData, "21.35") \/ ThenRe(pathData, "8.5", "5.42"))
    THEN Icon("Adicionar aos favoritos", "")
    ELSE IF /\ pathData # ""
            /\ startsAtCentreRe(pathData)
            /\ includes(toLowerCase(pathData), "c")
            /\ Len(pathData) > HeartPathLen
            /\ heartEndRe(pathData)
    THEN Icon("Adicionar aos favoritos", "")
    ELSE IF /\ fillColor # ""
            /\ redFillRe(fillColor)
            /\ viewBox24Re(svgCode)
            /\ pathData # "" /\ Len(pathData) > FillPathLen
    THEN Icon("Adicionar aos favoritos", "")
    ELSE IF circleCount = 1 /\ lineCount = 1 /\ pathCount = 0 /\ rectCount = 0
    THEN Icon("Pesquisar", "")
    ELSE IF /\ lineCount = 3 /\ pathCount = 0 /\ circleCount = 0 /\ rectCount = 0
            /\ horizontalLines(svgCode, 1) = 3
    THEN Icon("Abrir menu de navegação", "")
    ELSE IF lineCount = 2 /\ pathCount = 0 /\ circleCount = 0 /\ rectCount = 0
    THEN Icon("Fechar", "")
    ELSE IF /\ pathCount >= 1 /\ circleCount >= 1
            /\ circleRadiusRe(svgCode, {"1", "2", "3", "4", "5"})
    THEN Icon("Ver notificações", "")
    ELSE IF row # 0 THEN Icon(keywordPatterns[row].title, "")
    ELSE NoIcon

\* identifySpecificIcon(svgCode, lower); NoIcon stands for null
\* the decision of identifySpecificIcon from the facts it reads off the
\* markup: the path data, the fill colour, the numbers of elements and the
\* first matching row of keywordPatterns (0: none)
specificIcon(svgCode, pathData, fillColor, lineCount, circleCount, pathCount, rectCount, textCount, row) ==
    IF pathData # "" /\ (includes(pathData, "21.35") \/ ThenRe(pathData, "8.5", "5.42"))
    THEN Icon("Adicionar aos favoritos", "")
    ELSE IF /\ pathData # ""
            /\ startsAtCentreRe(pathData)
            /\ includes(toLowerCase(pathData), "c")
            /\ Len(pathData) > HeartPathLen
            /\ heartEndRe(pathData)
    THEN Icon("Adicionar aos favoritos", "")
    ELSE IF /\ fillColor # ""
            /\ redFillRe(fillColor)
            /\ viewBox24Re(svgCode)
            /\ pathData # "" /\ Len(pathData) > FillPathLen
    THEN Icon("Adicionar aos favoritos", "")
    ELSE IF rectCount >= 3 /\ lineCount >= 1
    THEN Icon("Gráfico de barras",
              "Gráfico de barras comparando valores de diferentes categorias.")
    ELSE IF rectCount >= 4 /\ lineCount = 0 /\ pathCount = 0
    THEN Icon("Gráfico de barras", "Gráfico de barras comparando valores.")
    ELSE IF pathCount >= 3 /\ arcPaths(svgCode, 1) >= 2
    THEN Icon("Gráfico de distribuição",
              "Gráfico circular mostrando proporções de diferentes categorias.")
    ELSE IF rectCount >= 2 /\ lineCount >= 1 /\ textCount >= 1
    THEN Icon("Diagrama de fluxo", "Diagrama mostrando etapas de um processo.")
    ELSE IF circleCount = 1 /\ lineCount = 1 /\ pathCount = 0 /\ rectCount = 0
    THEN Icon("Pesquisar", "")
    ELSE IF /\ lineCount = 3 /\ pathCount = 0 /\ circleCount = 0 /\ rectCount = 0
            /\ horizontalLines(svgCode, 1) = 3
    THEN Icon("Abrir menu de navegação", "")
    ELSE IF lineCount = 2 /\ pathCount = 0 /\ circleCount = 0 /\ rectCount = 0
    THEN Icon("Fechar", "")
    ELSE IF /\ pathCount >= 1 /\ circleCount >= 1
            /\ circleRadiusRe(svgCode, {"1", "2", "3", "4", "5"})
    THEN Icon("Ver notificações", "")
    ELSE IF row # 0 THEN Icon(keywordPatterns[row].title, "")
    ELSE NoIcon

identifySpecificIcon(svgCode, lower) ==
    specificIcon(svgCode,
                 ValueOf(svgCode, "d"),
                 toLowerCase(ValueOf(svgCode, "fill")),
                 CountTag(svgCode, "line"),
                 CountTag(svgCode, "circle"),
                 CountTag(svgCode, "path"),
                 CountTag(svgCode, "rect"),
                 CountTag(svgCode, "text"),
                 FirstRow(keywordPatterns, toLowerCase(svgCode)))

\* a suggestion of the heuristics (no wcagAnalysis)
Heur(isDecorative, titleText, descText) ==
    [ isDecorative |-> isDecorative, titleText |-> titleText,
      descText |-> descText, wcagAnalysis |-> Undefined ]

ShapeNames == {"rect", "circle", "ellipse", "polygon", "path", "line"}

\* the sum of f over the finite set S
RECURSIVE SumOver(_, _)
SumOver(S, f) ==
    IF S = {} THEN 0
    ELSE LET x == CHOOSE y \in S : TRUE IN f[x] + SumOver(S \ {x}, f)

\* (lower.match(/<(n1|n2|...)\b/g) || []).length for the names given
CountTags(lower, names) == SumOver(names, [n \in names |-> CountTag(lower, n)])

\* the decision of mockHeuristic from the tests it makes on the markup
heuristicOf(svgCode, hasText, hasMultipleShapes, hasChartWord, looksLikeIcon, hasComplexPath, looksLikeActionIcon, hasFewBasicShapes, iconIdentification, tm) ==
    LET looksLikeChart == hasMultipleShapes /\ hasChartWord
        looksLikeLogo  == hasText \/ (hasComplexPath /\ looksLikeIcon)
        isSmallIcon    == looksLikeIcon /\ (hasComplexPath \/ looksLikeActionIcon)
        isSimpleDecorativeShape ==
            /\ ~hasText /\ ~looksLikeChart /\ ~isSmallIcon /\ ~looksLikeLogo
            /\ hasFewBasicShapes
            /\ ~hasComplexPath
    IN IF isSimpleDecorativeShape THEN Heur(TRUE, "", "")
       ELSE IF iconIdentification.found
       THEN Heur(FALSE, iconIdentification.title, iconIdentification.desc)
       ELSE IF looksLikeChart
       THEN Heur(FALSE, "Gráfico de dados",
                 "Gráfico ou diagrama com múltiplos elementos visuais representando dados.")
       ELSE IF looksLikeLogo /\ hasText
       THEN Heur(FALSE,
                 IF tm # <<0, 0>>
                 THEN "Logotipo " \o trim(SubSeq(svgCode, tm[1], tm[2]))
                 ELSE "Logotipo da empresa",
                 "")
       ELSE IF hasMultipleShapes
       THEN Heur(FALSE, "Ilustração", "Imagem vetorial com múltiplos elementos gráficos.")
       ELSE Heur(FALSE, "Elemento gráfico", "")

\* mockHeuristic with svgCode.toLowerCase() given
mockHeuristicOn(svgCode, lower) ==
    heuristicOf(svgCode,
                hasTextRe(lower),
                CountTags(lower, ShapeNames) >= 3,
                \E w \in {"axis", "chart", "bar", "graph", "data", "legend"} :
                    includes(lower, w),
                looksLikeIconRe(svgCode),
                hasComplexPathRe(svgCode),
                looksLikeActionIconRe(svgCode, lower),
                CountTags(lower, {"rect", "circle", "ellipse"}) <= 1,
                identifySpecificIcon(svgCode, lower),
                textMatch(svgCode))

mockHeuristic(svgCode) == mockHeuristicOn(svgCode, toLowerCase(svgCode))

\* the upper-case letter of a lower-case letter
UpperOf ==
    [ c \in LowerSet |->
        CharAt(Uppers, CHOOSE k \in 1..Len(Lowers) : CharAt(Lowers, k) = c) ]

\* s.charAt(0).toUpperCase() + s.slice(1)
Capitalize(s) ==
    IF Len(s) = 0 THEN ""
    ELSE LET c == CharAt(s, 1)
         IN (IF c \in LowerSet THEN UpperOf[c] ELSE c) \o SubSeq(s, 2, Len(s))

\* a[-_]?b as the literals it matches
Sep(a, b) == { a \o b, a \o "-" \o b, a \o "_" \o b }

\* last.split('?')[0]
beforeQuery(last) ==
    IF IndexOf(last, "?", 1) = 0 THEN last
    ELSE SubSeq(last, 1, IndexOf(last, "?", 1) - 1)

\* imgSrc.split('/').pop()?.split('?')[0] || ''
fileNameOf(imgSrc) ==
    beforeQuery(SubSeq(imgSrc, LastIndexOfChar(imgSrc, "/", Len(imgSrc)) + 1,
                       Len(imgSrc)))

DashToSpace(c) == IF c \in {"-", "_"} THEN " " ELSE c

\* s.replace(/[-_]/g, ' ')
DashesToSpaces(s) == Concat([i \in 1..Len(s) |-> DashToSpace(CharAt(s, i))])

\* fileName.replace(/\.[^.]+$/, '') for the last "." at position dot
withoutExt(fileName, dot) ==
    IF dot # 0 /\ dot < Len(fileName) THEN SubSeq(fileName, 1, dot - 1)
    ELSE fileName

\* fileName.replace(/\.[^.]+$/, '').replace(/[-_]/g, ' ')
fileNameNoExtOf(fileName) ==
    DashesToSpaces(withoutExt(fileName, LastIndexOfChar(fileName, ".", Len(fileName))))

decorativePatterns ==
    {"decorative", "decorativo", "spacer", "blank", "pixel", "transparent",
     "bgimage", "bg-image", "bg_image", "background", "divider", "separator",
     "border", "shadow", "gradient", "pattern", "texture", "1x1", "placeholder"}
    \cup Sep("bg", "image")
    \cup {"background", "divider", "separator", "border", "shadow", "gradient",
          "pattern", "texture", "1x1", "placeholder"}

\* name[-_]?icon | icon[-_]?name
IconOf(name) == Sep("icon", name) \cup Sep(name, "icon")

imgIconPatterns ==
    << Lits("Pesquisar", IconOf("search") \cup {"lupa", "magnif"}),
       Lits("Menu", IconOf("menu") \cup {"hamburger"}),
       Lits("Fechar", IconOf("close") \cup Sep("x", "icon")),
       Lits("Página inicial", IconOf("home") \cup {"casa"}),
       Lits("Perfil do usuário", IconOf("user") \cup {"avatar", "profile"}),
       Lits("Carrinho de compras", IconOf("cart") \cup {"carrinho", "shopping"}),
       Lits("Favoritos", IconOf("heart") \cup {"favorit"}),
       Lits("Avaliação", IconOf("star") \cup {"estrela"}),
       Lits("Configurações", IconOf("settings") \cup {"config", "gear", "engrenagem"}),
       Lits("Notificações", IconOf("bell") \cup {"notif", "sino"}),
       Lits("Email", IconOf("mail") \cup {"email", "envelope"}),
       Lits("Telefone", IconOf("phone") \cup {"telefone", "call"}),
       Lits("Baixar", Sep("icon", "download")),
       Lits("Enviar arquivo", Sep("icon", "upload")),
       Lits("Editar", IconOf("edit") \cup {"pencil", "lápis"}),
       Lits("Excluir", IconOf("delete") \cup {"trash", "lixo"}),
       Lits("Adicionar", IconOf("add") \cup {"plus", "+"}),
       Lits("Confirmar", IconOf("check") \cup {"tick"}),
       Lits("Anterior",
            UNION { Sep(a, "left") : a \in Sep("icon", "arrow") } \cup {"prev", "anterior"}),
       Lits("Próximo",
            UNION { Sep(a, "right") : a \in Sep("icon", "arrow") } \cup {"next", "próximo"}),
       Lits("Reproduzir", Sep("icon", "play")),
       Lits("Pausar", Sep("icon", "pause")),
       Lits("Compartilhar", Sep("icon", "share") \cup {"compartilhar"}),
       Lits("Copiar link", Sep("icon", "link")),
       Lits("Copiar", Sep("icon", "copy") \cup {"copiar"}),
       Lits("Salvar", Sep("icon", "save") \cup {"salvar"}),
       Lits("Imprimir", Sep("icon", "print") \cup {"imprimir"}),
       Lits("Localização", Sep("icon", "location") \cup {"pin", "mapa"}),
       Lits("Calendário", Sep("icon", "calendar") \cup {"calendário"}),
       Lits("Horário", Sep("icon", "clock") \cup {"relógio", "hora"}),
       Lits("Segurança", Sep("icon", "lock") \cup {"cadeado", "seguro"}),
       Lits("Visualizar", Sep("icon", "eye") \cup {"visualizar", "olho"}),
       Lits("Informações", Sep("icon", "info") \cup {"informação"}),
       Lits("Ajuda", Sep("icon", "help") \cup {"ajuda"}),
       Lits("Mensagens", Sep("icon", "chat") \cup {"message", "mensagem"}),
       Lits("Sair", Sep("icon", "logout") \cup {"sair"}),
       Lits("Entrar", Sep("icon", "login") \cup {"entrar"}) >>

\* /logo[-_]?/i, /brand[-_]?/i, /marca[-_]?/i, /[-_]logo\./i, /[-_]brand\./i
logoPatterns ==
    {"logo", "brand", "marca", "-logo.", "_logo.", "-brand.", "_brand."}

\* [a-z0-9] under the flag i
IsAlnum(c) == c \in LowerSet \/ c \in UpperSet \/ c \in DigitSet

\* first position >= i of s that holds no [a-z0-9]
RECURSIVE SkipAlnum(_, _)
SkipAlnum(s, i) ==
    IF i <= Len(s) /\ IsAlnum(CharAt(s, i)) THEN SkipAlnum(s, i + 1) ELSE i

\* position after [-_]? at position i
SkipSep(s, i) == IF i <= Len(s) /\ CharAt(s, i) \in {"-", "_"} THEN i + 1 ELSE i

\* the group ([a-z0-9]+) at position g
alnumRun(s, g) == SubSeq(s, g, SkipAlnum(s, g) - 1)

\* group 1 of the match of /logo[-_]?([a-z0-9]+)/i at position i (0: none)
brandAfterLogoAt(s, i) ==
    IF i = 0 THEN "" ELSE alnumRun(s, SkipSep(s, i + 4))

\* s.match(/logo[-_]?([a-z0-9]+)/i): group 1 of the leftmost match, "" if
\* there is none
brandAfterLogo(s) ==
    brandAfterLogoAt(s, MinOr0({ i \in 1..Len(s) :
                                   /\ StartsAtCI(s, i, "logo")
                                   /\ alnumRun(s, SkipSep(s, i + 4)) # "" }))

\* the ends (exclusive) of the groups ([a-z0-9]+) starting at position i
\* that [-_]?logo can follow
brandEnds(s, i) ==
    { e \in (i + 1)..SkipAlnum(s, i) :
        StartsAtCI(s, e, "logo") \/ StartsAtCI(s, SkipSep(s, e), "logo") }

\* group 1 of the match of /([a-z0-9]+)[-_]?logo/i at position i (0: none):
\* the longest group there
brandBeforeLogoAt(s, i) ==
    IF i = 0 THEN "" ELSE SubSeq(s, i, MaxOf(brandEnds(s, i)) - 1)

\* s.match(/([a-z0-9]+)[-_]?logo/i): group 1 of the leftmost match, "" if
\* there is none
brandBeforeLogo(s) ==
    brandBeforeLogoAt(s, MinOr0({ i \in 1..Len(s) : brandEnds(s, i) # {} }))

\* one row of contentPatterns: the words of the alternatives word[-_]? in
\* the order of the expression
Content(prefix, alts) == [prefix |-> prefix, alts |-> alts]

contentPatterns ==
    << Content("Banner promocional", <<"banner">>),
       Content("Imagem principal", <<"hero">>),
       Content("Produto", <<"product", "produto">>),
       Content("Membro da equipe", <<"team", "equipe">>),
       Content("Depoimento de cliente", <<"testimonial", "depoimento">>),
       Content("Imagem da galeria", <<"gallery", "galeria">>),
       Content("Slide", <<"slide", "carousel">>),
       Content("Miniatura", <<"thumbnail", "thumb">>),
       Content("Foto de perfil", <<"avatar">>),
       Content("Fotografia", <<"photo", "foto">>),
       Content("Gráfico", <<"chart", "graph", "gráfico">>),
       Content("Diagrama", <<"diagram", "diagrama">>),
       Content("Mapa", <<"map", "mapa">>),
       Content("Infográfico", <<"infographic", "infográfico">>) >>

\* row.pattern.test(lower) for a lower-cased text
ContentTest(row, lower) ==
    \E k \in 1..Len(row.alts) : includes(lower, row.alts[k])

\* the alternatives of the row that match at position i of s
altsAt(row, s, i) == { k \in 1..Len(row.alts) : StartsAtCI(s, i, row.alts[k]) }

\* s without the word w at position i and the [-_]? after it
cutWord(s, i, w) ==
    SubSeq(s, 1, i - 1) \o SubSeq(s, SkipSep(s, i + Len(w)), Len(s))

\* s without the match at position i (0: none), which is by the first
\* alternative that matches there
cutAt(row, s, i) ==
    IF i = 0 THEN s ELSE cutWord(s, i, row.alts[MinOf(altsAt(row, s, i))])

\* s.replace(row.pattern, ''): the leftmost match is cut out
ContentRemove(row, s) ==
    cutAt(row, s, MinOr0({ i \in 1..Len(s) : altsAt(row, s, i) # {} }))

DigitToSpace(c) == IF c \in DigitSet THEN " " ELSE c

\* the character position i of d leaves under .replace(/\s+/g, ' ')
squeezedAt(d, i) ==
    IF ~IsSpace(CharAt(d, i)) THEN CharAt(d, i)
    ELSE IF i > 1 /\ IsSpace(CharAt(d, i - 1)) THEN "" ELSE " "

\* d.replace(/\s+/g, ' ').trim()
squeeze(d) == trim(Concat([i \in 1..Len(d) |-> squeezedAt(d, i)]))

\* s.replace(/[0-9]+/g, ' ').replace(/\s+/g, ' ').trim()
cleanNameOf(s) == squeeze(Concat([i \in 1..Len(s) |-> DigitToSpace(CharAt(s, i))]))

\* a || b for strings
OrString(a, b) == IF a # "" THEN a ELSE b

\* desc ? `${prefix}: ${desc}` : prefix
contentTitle(prefix, desc) == IF desc # "" THEN prefix \o ": " \o desc ELSE prefix

\* imgHeuristicOf with the icon rows consulted before the decorative markers
imgHeuristicOf_iconFirst(lower, srcLower, fileNameNoExt, icon, brandMatch, content, cleanName) ==
    IF icon # 0 THEN Heur(FALSE, imgIconPatterns[icon].title, "")
    ELSE IF \E w \in decorativePatterns : includes(srcLower, w) \/ includes(lower, w)
    THEN Heur(TRUE, "", "")
    ELSE IF \E w \in logoPatterns : includes(srcLower, w)
    THEN Heur(FALSE,
              IF brandMatch # "" THEN "Logo " \o Capitalize(brandMatch)
              ELSE "Logo da empresa",
              "")
    ELSE IF content # 0
    THEN Heur(FALSE,
              contentTitle(contentPatterns[content].prefix,
                           trim(ContentRemove(contentPatterns[content], fileNameNoExt))),
              "")
    ELSE IF Len(fileNameNoExt) > 2 /\ Len(cleanName) > 2
    THEN Heur(FALSE, Capitalize(cleanName), "")
    ELSE Heur(FALSE, "[Descrição da imagem]", "")

\* the decision of mockImgHeuristic from what it reads off the source and
\* the tag: the first matching rows of imgIconPatterns and contentPatterns
\* (0: none), the brand and the cleaned name
imgHeuristicOf(lower, srcLower, fileNameNoExt, icon, brandMatch, content, cleanName) ==
    IF \E w \in decorativePatterns : includes(srcLower, w) \/ includes(lower, w)
    THEN Heur(TRUE, "", "")
    ELSE IF icon # 0 THEN Heur(FALSE, imgIconPatterns[icon].title, "")
    ELSE IF \E w \in logoPatterns : includes(srcLower, w)
    THEN Heur(FALSE,
              IF brandMatch # "" THEN "Logo " \o Capitalize(brandMatch)
              ELSE "Logo da empresa",
              "")
    ELSE IF content # 0
    THEN Heur(FALSE,
              contentTitle(contentPatterns[content].prefix,
                           trim(ContentRemove(contentPatterns[content], fileNameNoExt))),
              "")
    ELSE IF Len(fileNameNoExt) > 2 /\ Len(cleanName) > 2
    THEN Heur(FALSE, Capitalize(cleanName), "")
    ELSE Heur(FALSE, "[Descrição da imagem]", "")

\* mockImgHeuristicOn with the content rows tested on the text of the tag
mockImgHeuristicOn_tag(lower, srcLower, fileNameNoExt) ==
    imgHeuristicOf(lower, srcLower, fileNameNoExt,
                   MinOr0({ k \in 1..Len(imgIconPatterns) :
                              \/ RowTest(imgIconPatterns[k], srcLower)
                              \/ RowTest(imgIconPatterns[k], lower) }),
                   OrString(brandAfterLogo(srcLower), brandBeforeLogo(srcLower)),
                   MinOr0({ k \in 1..Len(contentPatterns) :
                              ContentTest(contentPatterns[k], lower) }),
                   cleanNameOf(fileNameNoExt))

\* mockImgHeuristic with the lower-cased tag and source and the file name
\* without its extension given
mockImgHeuristicOn(lower, srcLower, fileNameNoExt) ==
    imgHeuristicOf(lower, srcLower, fileNameNoExt,
                   MinOr0({ k \in 1..Len(imgIconPatterns) :
                              \/ RowTest(imgIconPatterns[k], srcLower)
                              \/ RowTest(imgIconPatterns[k], lower) }),
                   OrString(brandAfterLogo(srcLower), brandBeforeLogo(srcLower)),
                   MinOr0({ k \in 1..Len(contentPatterns) :
                              ContentTest(contentPatterns[k], srcLower) }),
                   cleanNameOf(fileNameNoExt))

mockImgHeuristic(imgSrc, imgTag) ==
    mockImgHeuristicOn(toLowerCase(imgTag), toLowerCase(imgSrc),
                       fileNameNoExtOf(fileNameOf(imgSrc)))

(***************************************************************************)
(* Documents the scanner is run on.  A document is written down as a       *)
(* structure (what its author meant) and rendered to the text the scanner  *)
(* reads, so that the facts the scanner extracts can be compared with the  *)
(* facts of the markup.                                                    *)
(***************************************************************************)

\* SeqsUpTo(S, n): the sequences over S of length at most n
SeqsUpTo(S, n) == UNION { [1..k -> S] : k \in 0..n }

\* children of an svg element that are not svg elements themselves;
\* td: the child is a <title> or <desc> element
Leaves ==
    { [k |-> "leaf", s |-> "<title>t</title>", td |-> TRUE, kids |-> << >>],
      [k |-> "leaf", s |-> "<desc>d</desc>", td |-> TRUE, kids |-> << >>],
      [k |-> "leaf", s |-> "<TITLE id=\"a\">t</TITLE>", td |-> TRUE, kids |-> << >>],
      [k |-> "leaf", s |-> "<titles>q</titles>", td |-> FALSE, kids |-> << >>],
      [k |-> "leaf", s |-> "<rect width=\"1\" height=\"1\"/>", td |-> FALSE, kids |-> << >>] }

\* an svg element nested in another: at most one leaf inside
NestedSvgs ==
    { [k |-> "svg", s |-> "", td |-> FALSE, kids |-> ks] : ks \in SeqsUpTo(Leaves, 1) }

Kids == Leaves \cup NestedSvgs

\* the attribute text of the opening tag
OpenAttrs ==
    { "", " aria-hidden=\"true\"", " aria-hidden='true'", " aria-hidden=\"false\"" }

SvgElems ==
    { [attrs |-> a, kids |-> ks] : a \in OpenAttrs, ks \in SeqsUpTo(Kids, MaxKids) }

RenderLeaves(ls) == Concat([i \in 1..Len(ls) |-> ls[i].s])

RenderKid(kid) ==
    IF kid.k = "leaf" THEN kid.s
    ELSE "<svg>" \o RenderLeaves(kid.kids) \o "</svg>"

RenderSvg(e) ==
    "<svg" \o e.attrs \o ">"
    \o Concat([i \in 1..Len(e.kids) |-> RenderKid(e.kids[i])])
    \o "</svg>"

\* the element holds a <title> or <desc> anywhere between its opening tag
\* and its own closing tag
ContainsTitleOrDesc(e) ==
    \E i \in 1..Len(e.kids) :
        \/ e.kids[i].td
        \/ \E j \in 1..Len(e.kids[i].kids) : e.kids[i].kids[j].td

\* attributes of an <img> tag; q: "dq" name="val", "sq" name='val',
\* "nq" name=val, "bare" name
ImgAttrPool ==
    { [name |-> "alt", val |-> "", q |-> "dq"],
      [name |-> "alt", val |-> "x", q |-> "dq"],
      [name |-> "alt", val |-> "x", q |-> "nq"],
      [name |-> "alt", val |-> "", q |-> "bare"],
      [name |-> "ALT", val |-> "y", q |-> "sq"],
      [name |-> "data-alt", val |-> "x", q |-> "dq"],
      [name |-> "src", val |-> "a.png", q |-> "dq"],
      [name |-> "role", val |-> "none", q |-> "dq"],
      [name |-> "role", val |-> "presentation", q |-> "sq"],
      [name |-> "data-role", val |-> "none", q |-> "dq"],
      [name |-> "aria-hidden", val |-> "true", q |-> "dq"],
      [name |-> "aria-hidden", val |-> "false", q |-> "dq"],
      [name |-> "class", val |-> "hero", q |-> "dq"] }

ImgTags ==
    { [attrs |-> as, closer |-> c] : as \in SeqsUpTo(ImgAttrPool, MaxAttrs), c \in {">", " />"} }

RenderAttr(a) ==
    CASE a.q = "dq" -> a.name \o "=\"" \o a.val \o "\""
      [] a.q = "sq" -> a.name \o "='" \o a.val \o "'"
      [] a.q = "nq" -> a.name \o "=" \o a.val
      [] OTHER -> a.name

RenderImg(g) ==
    "<img" \o Concat([i \in 1..Len(g.attrs) |-> " " \o RenderAttr(g.attrs[i])]) \o g.closer

\* the tag has an attribute called n (attribute names are case-insensitive)
TagHasAttr(g, n) == \E i \in 1..Len(g.attrs) : toLowerCase(g.attrs[i].name) = n

\* the tag has an attribute called n whose value is one of vals
TagHasAttrIn(g, n, vals) ==
    \E i \in 1..Len(g.attrs) :
        /\ toLowerCase(g.attrs[i].name) = n
        /\ g.attrs[i].q # "bare"
        /\ toLowerCase(g.attrs[i].val) \in vals

NoSvg == [attrs |-> "", kids |-> << >>]
NoImg == [attrs |-> << >>, closer |-> ">"]

\* the pieces of a text that need not be well formed: opening tags, closing
\* tags in the two cases, a tag whose name only starts with svg, an image
\* and plain text
OpenPieces == { "<svg>", "<SVG id=\"a\">" }

Pieces == OpenPieces \cup { "</svg>", "</SVG>", "<svgs>", "<img alt=\"\">", "x" }

PieceTexts == SeqsUpTo(Pieces, MaxPieces)

Docs ==
    { [kind |-> "svg", svg |-> e, img |-> NoImg, pieces |-> << >>] : e \in SvgElems }
    \cup { [kind |-> "img", svg |-> NoSvg, img |-> g, pieces |-> << >>] : g \in ImgTags }
    \cup { [kind |-> "pieces", svg |-> NoSvg, img |-> NoImg, pieces |-> ps] : ps \in PieceTexts }

RenderDoc(d) ==
    CASE d.kind = "svg" -> RenderSvg(d.svg)
      [] d.kind = "img" -> RenderImg(d.img)
      [] OTHER -> Concat(d.pieces)

(***************************************************************************)
(* iaClient.ts: the pieces of the suggestion pipeline.  What fetch settles *)
(* with is an outcome: a record with the fields threw (fetch or resp.text  *)
(* rejected), status and body, which the code reads, and the fields shape  *)
(* and content, which say how the body was built and which the code never  *)
(* reads.                                                                  *)
(***************************************************************************)

\* !(!this.opts.endpoint || !this.opts.apiKey)
HasCredentials_endpoint(o) == o.endpoint # ""

HasCredentials(o) == o.endpoint # "" /\ o.apiKey # ""

\* imgSrc.startsWith('http://') || imgSrc.startsWith('https://') ||
\* imgSrc.startsWith('data:')
isExternalUrl_always(imgSrc) == TRUE

isExternalUrl(imgSrc) ==
    \/ StartsAt(imgSrc, 1, "http://")
    \/ StartsAt(imgSrc, 1, "https://")
    \/ StartsAt(imgSrc, 1, "data:")

\* the test of suggestImgWithVision for a path it cannot send
isRelativePath(imgSrc) ==
    /\ ~StartsAt(imgSrc, 1, "http://")
    /\ ~StartsAt(imgSrc, 1, "https://")
    /\ ~StartsAt(imgSrc, 1, "data:")

\* path.resolve(documentDir, imgSrc) for the paths of the model, which hold
\* no "." or ".." segment
resolvePath(documentDir, imgSrc) ==
    IF StartsAt(imgSrc, 1, "/") THEN imgSrc ELSE documentDir \o "/" \o imgSrc

\* the condition of suggestForSvg, this.opts.useVision, in suggestForImg
effectiveUseVision_opts(setting, o) == o.useVision

\* config.get('useVision') ?? this.opts.useVision, as the condition of if
effectiveUseVision(setting, o) ==
    IF Nullish(setting) THEN o.useVision ELSE Truthy(setting)

\* resp.ok
respOk(r) == r.status >= 200 /\ r.status <= 299

\* the headers of suggestWithText, suggestImgWithText, suggestImgWithVision
\* and suggestLocalImgWithVision
textHeaders(provider, apiKey) ==
    IF provider = "claude"
    THEN "Content-Type" :> "application/json"
         @@ "anthropic-version" :> "2023-06-01"
         @@ "x-api-key" :> apiKey
    ELSE "Content-Type" :> "application/json"
         @@ "Authorization" :> ("Bearer " \o apiKey)

\* the headers of suggestWithVision
visionHeaders(provider, apiKey) ==
    IF provider = "claude"
    THEN "Content-Type" :> "application/json"
         @@ "Authorization" :> ("Bearer " \o apiKey)
         @@ "anthropic-version" :> "2023-06-01"
    ELSE "Content-Type" :> "application/json"
         @@ "Authorization" :> ("Bearer " \o apiKey)

\* greatest number of characters of an error body kept in the message
ErrorTextLen == 200

\* the message of the error a failed attempt is caught with; the engine's
\* own messages (fetch, JSON.parse, property reads) are not modelled
errMessage(r) ==
    IF r.threw THEN "fetch failed"
    ELSE IF ~respOk(r)
    THEN "HTTP " \o StrOfNat(r.status) \o ": "
         \o slice(r.body, 0, IF Len(r.body) < ErrorTextLen THEN Len(r.body) ELSE ErrorTextLen)
    ELSE "invalid response"

\* the try block of a request from the point where fetch settles: throws
\* unless the response is ok and parseVisionResponse returns
settle_noThrow(r, provider) ==
    IF r.threw \/ ~respOk(r) THEN Returned(NoSuggestion)
    ELSE parseVisionResponse(r.body, provider)

settle(r, provider) ==
    IF r.threw \/ ~respOk(r) THEN Threw ELSE parseVisionResponse(r.body, provider)

\* the events of a run, in the order they happen
Request(fn, strategy, provider, headers) ==
    [ ev |-> "request", fn |-> fn, strategy |-> strategy,
      provider |-> provider, headers |-> headers ]

Response(r) == [ev |-> "response", outcome |-> r]

Warning(message) == [ev |-> "warning", message |-> message]

Heuristic(fn) == [ev |-> "heuristic", fn |-> fn]

\* suggestLocalImgWithVision up to the request: "missing" if existsSync is
\* false, "unreadable" if readFileSync throws, else "send"
localImgStep_send(fileExists, readOK) == "send"

localImgStep(fileExists, readOK) ==
    IF ~fileExists THEN "missing"
    ELSE IF ~readOK THEN "unreadable"
    ELSE "send"

(***************************************************************************)
(* The inputs of the pipeline.                                             *)
(***************************************************************************)
Endpoints ==
    { "",
      "https://api.openai.com/v1/chat/completions",
      "https://api.anthropic.com/v1/messages",
      "https://generativelanguage.googleapis.com/v1beta/models/gemini-pro:generateContent",
      "http://localhost:11434/api/chat" }

ApiKeys == {"", "sk-1"}

SvgSamples ==
    { "<svg width=\"10\" height=\"10\"><rect width=\"10\" height=\"10\"/></svg>",
      "<svg viewBox=\"0 0 24 24\"><circle cx=\"11\" cy=\"11\" r=\"8\"/><line x1=\"21\" y1=\"21\" x2=\"16\" y2=\"16\"/></svg>" }

ImgSamples ==
    { [ src |-> "https://cdn.example.com/img/logo-acme.png",
        tag |-> "<img src=\"https://cdn.example.com/img/logo-acme.png\">" ],
      [ src |-> "img/hero-banner.jpg",
        tag |-> "<img class=\"top\" src=\"img/hero-banner.jpg\">" ] }

\* the directory of the document an image path is resolved against
DocumentDir == "/work/site"

\* the values of the setting svgA11yAssist.useVision
Settings == { JBool(TRUE), JBool(FALSE), Undefined }

\* an answer in the legacy form
LegacyContent ==
    JSONstringify(JObj( "isDecorative" :> JBool(FALSE)
                        @@ "titleText" :> JStr("Search products")
                        @@ "descText" :> JStr("") ))

\* what a model answers with: the content of the vendor's text field
ContentOf(content) ==
       CASE content = "legacy"  -> LegacyContent
         [] content = "wrapped" -> "Here is the analysis:\n" \o LegacyContent \o "\nDone."
         [] content = "wcag"    ->
              JSONstringify(JObj(
                  "conformidade" :> JObj( "status" :> JStr("conforme")
                                          @@ "altObrigatorio" :> JBool(FALSE)
                                          @@ "justificativa" :> JStr("ornament") )
                  @@ "tipoImagem" :> JObj( "classificacao" :> JStr("Decorativa")
                                           @@ "impacto" :> JStr("none") )
                  @@ "recomendacao" :> JObj( "altText" :> JStr("")
                                             @@ "descricaoLonga" :> JStr("") )
                  @@ "codigoSugerido" :> JStr("<svg aria-hidden=\"true\">") ))
         [] content = "prose"   -> "I cannot analyse this image."
         [] content = "badobj"  -> "{\"isDecorative\": true,}"

\* the response body of the given shape around the content c
BodyAround(shape, c) ==
       CASE shape = "openai" ->
              JSONstringify(JObj("choices" :> JArr(<<JObj("message" :>
                  JObj("role" :> JStr("assistant") @@ "content" :> c))>>)))
         [] shape = "claude" ->
              JSONstringify(JObj("content" :> JArr(<<JObj("type" :> JStr("text")
                  @@ "text" :> c)>>)))
         [] shape = "gemini" ->
              JSONstringify(JObj("candidates" :> JArr(<<JObj("content" :>
                  JObj("parts" :> JArr(<<JObj("text" :> c)>>)))>>)))
         [] shape = "response" -> JSONstringify(JObj("response" :> c))
         [] shape = "direct" -> StrOf(c)
         [] shape = "nopath" ->
              JSONstringify(JObj("error" :> JObj("message" :> JStr("overloaded"))))
         [] shape = "notjson" -> "<html>502 Bad Gateway</html>"

BodyOf(shape, content) == BodyAround(shape, JStr(ContentOf(content)))

\* what existsSync answers and whether readFileSync returns: only a file
\* that exists is read
FileStates == { f \in BOOLEAN \X BOOLEAN : f[2] => f[1] }

Outcome(status, shape, content) ==
    [ threw |-> FALSE, status |-> status, body |-> BodyOf(shape, content),
      shape |-> shape, content |-> content ]

\* fetch rejects
NetworkError ==
    [threw |-> TRUE, status |-> 0, body |-> "", shape |-> "none", content |-> "none"]

Outcomes ==
    { NetworkError,
      Outcome(500, "nopath", "none"),
      Outcome(200, "notjson", "none"),
      Outcome(200, "nopath", "none"),
      Outcome(200, "openai", "legacy"),
      Outcome(200, "openai", "prose"),
      Outcome(200, "openai", "badobj"),
      Outcome(200, "claude", "wrapped"),
      Outcome(200, "claude", "badobj"),
      Outcome(200, "gemini", "wcag"),
      Outcome(200, "response", "legacy"),
      Outcome(200, "direct", "legacy") }

(***************************************************************************)
(* State.                                                                  *)
(***************************************************************************)
VARIABLES
    doc,            \* the document as its author structured it
    text,           \* the document text handed to the scanner
    svgNodes,       \* whether findSvgNodes(text) has run, and its results
    imgNodes,       \* whether findImgNodes(text) has run, and its results
    svgLastIndex,   \* SVG_OPEN_RE.lastIndex
    imgLastIndex,   \* IMG_RE.lastIndex
    calls,          \* the scanner calls made so far: function and text
    opts,           \* IAClientOptions of the client
    pc,             \* "idle", the function awaiting its fetch, or "done"
    req,            \* the arguments of the call and what it has read
    trace,          \* the events of the call so far
    result,         \* the promise the call returned
    call,           \* a function of the client called on its own: name and arguments
    ret,            \* whether that function has returned, and its value
    fix             \* the fix command under way: its step, target and token

scanVars == <<doc, text, svgNodes, imgNodes, svgLastIndex, imgLastIndex, calls>>

clientVars == <<opts, pc, req, trace, result>>

fnVars == <<call, ret>>

fixVars == <<fix>>

vars == <<scanVars, clientVars, fnVars, fixVars>>

\* no fix command has been given: the command ("svg" or "img"), its step,
\* the eligible node it works on (none yet), whether and in which step its token was cancelled, the change
\* the document saw while the request was in flight, whether the edit was
\* applied and the id its title got
NoFix ==
    [ kind |-> "none", pc |-> "idle", target |-> << >>, cancelled |-> FALSE, cancelAt |-> "never",
      change |-> "none", applied |-> FALSE, titleId |-> "" ]

\* no function is called on its own
NoCall == [fn |-> "none"]

NotReturned == [done |-> FALSE]

ReturnedValue(v) == [done |-> TRUE, value |-> v]

\* no scan has run
NotScanned == [scanned |-> FALSE, results |-> << >>]

\* a scan has returned results
Scanned(results) == [scanned |-> TRUE, results |-> results]

\* the file of a call that has not looked for it
FileNotRead == [looked |-> FALSE, exists |-> FALSE, readable |-> FALSE]

NoRequest ==
    [ kind |-> "none", svgCode |-> "", imgSrc |-> "", imgTag |-> "",
      hasDocumentUri |-> FALSE, setting |-> "not read", file |-> FileNotRead ]

Pending == [status |-> "pending", value |-> NoSuggestion]

Resolved(v) == [status |-> "resolved", value |-> v]

InitScan ==
    /\ doc \in Docs
    /\ text = RenderDoc(doc)
    /\ svgNodes = NotScanned
    /\ imgNodes = NotScanned
    /\ svgLastIndex = 0
    /\ imgLastIndex = 0
    /\ calls = << >>
    /\ call = NoCall
    /\ ret = NotReturned
    /\ fix = NoFix
    /\ opts = [endpoint |-> "", apiKey |-> "", model |-> "", useVision |-> FALSE]
    /\ pc = "idle"
    /\ req = NoRequest
    /\ trace = << >>
    /\ result = Pending

\* a call of findSvgNodes(text)
ScanSvg ==
    /\ ~svgNodes.scanned
    /\ LET r == findSvgNodes(text, svgLastIndex)
       IN /\ svgNodes' = Scanned(r.results)
          /\ svgLastIndex' = r.lastIndex
    /\ calls' = Append(calls, [fn |-> "findSvgNodes", text |-> text])
    /\ UNCHANGED <<doc, text, imgNodes, imgLastIndex, clientVars, fnVars, fixVars>>

\* a call of findImgNodes(text)
ScanImg ==
    /\ ~imgNodes.scanned
    /\ LET r == findImgNodes(text, imgLastIndex)
       IN /\ imgNodes' = Scanned(r.results)
          /\ imgLastIndex' = r.lastIndex
    /\ calls' = Append(calls, [fn |-> "findImgNodes", text |-> text])
    /\ UNCHANGED <<doc, text, svgNodes, svgLastIndex, clientVars, fnVars, fixVars>>

NextScan == ScanSvg \/ ScanImg

SpecScan == InitScan /\ [][NextScan]_vars

\* the texts of the calls that follow one another in SpecRescan
RescanTexts ==
    { << >>,
      << "<svg>" >>,
      << "<svg>", "</svg>" >>,
      << "<svg>", "</svg>", "<svg>" >>,
      << "x", "<img alt=\"\">" >>,
      << "<img alt=\"\">", "<svg>", "</svg>" >> }

RescanDocs ==
    { [kind |-> "pieces", svg |-> NoSvg, img |-> NoImg, pieces |-> ps] : ps \in RescanTexts }

InitRescan ==
    /\ InitScan
    /\ doc \in RescanDocs

\* the extension turns to another text (or to the same text again): the
\* regular expression objects of the module keep their lastIndex
NewText ==
    /\ Len(calls) < MaxCalls
    /\ \E d \in RescanDocs :
          /\ doc' = d
          /\ text' = RenderDoc(d)
    /\ svgNodes' = NotScanned
    /\ imgNodes' = NotScanned
    /\ UNCHANGED <<svgLastIndex, imgLastIndex, calls, clientVars, fnVars, fixVars>>

NextRescan == ScanSvg \/ ScanImg \/ NewText

\* calls of the scanners that follow one another on texts that change
SpecRescan == InitRescan /\ [][NextRescan]_vars

(***************************************************************************)
(* The suggestion pipeline: one call of suggestForSvg or suggestForImg.    *)
(***************************************************************************)
Init ==
    /\ opts \in [endpoint : Endpoints, apiKey : ApiKeys, model : {""}, useVision : BOOLEAN]
    /\ pc = "idle"
    /\ req = NoRequest
    /\ trace = << >>
    /\ result = Pending
    /\ doc = [kind |-> "svg", svg |-> NoSvg, img |-> NoImg, pieces |-> << >>]
    /\ text = ""
    /\ svgNodes = NotScanned
    /\ imgNodes = NotScanned
    /\ svgLastIndex = 0
    /\ imgLastIndex = 0
    /\ calls = << >>
    /\ call = NoCall
    /\ ret = NotReturned
    /\ fix = NoFix

\* the request suggestWithText sends
svgTextRequest ==
    LET provider == detectAIProvider(opts.endpoint)
    IN Request("suggestWithText", "text", provider, textHeaders(provider, opts.apiKey))

\* the request fn sends for an image
imgRequest(fn, strategy) ==
    LET provider == detectAIProvider(opts.endpoint)
    IN Request(fn, strategy, provider, textHeaders(provider, opts.apiKey))

\* the function returns v
Return(v) ==
    /\ result' = Resolved(v)
    /\ pc' = "done"

\* the function awaits the fetch it has sent
Await(fn) ==
    /\ pc' = fn
    /\ UNCHANGED result

\* suggestForSvg(svgCode) up to its first fetch; renderOK: the promise of
\* renderSvgToBase64 resolves
SuggestForSvg(svgCode, renderOK) ==
    /\ pc = "idle"
    /\ req' = [NoRequest EXCEPT !.kind = "svg", !.svgCode = svgCode]
    /\ IF ~HasCredentials(opts)
       THEN /\ trace' = <<Heuristic("mockHeuristic")>>
            /\ Return(mockHeuristic(svgCode))
       ELSE IF opts.useVision
       THEN IF renderOK
            THEN LET provider == detectAIProvider(opts.endpoint)
                 IN /\ trace' = << Request("suggestWithVision", "vision", provider,
                                           visionHeaders(provider, opts.apiKey)) >>
                    /\ Await("suggestWithVision")
            ELSE /\ trace' = << Warning("Falha na chamada de IA (visão), tentando modo texto: render failed"),
                               svgTextRequest >>
                 /\ Await("suggestWithText")
       ELSE /\ trace' = <<svgTextRequest>>
            /\ Await("suggestWithText")
    /\ UNCHANGED <<opts, scanVars, fnVars, fixVars>>

\* the fetch of suggestWithVision settles with r: the rest of the function,
\* with the catch block falling to the heuristic at once
VisionSettles_heuristic(r) ==
    /\ pc = "suggestWithVision"
    /\ LET s == settle(r, detectAIProvider(opts.endpoint))
       IN IF s.ok
          THEN /\ trace' = Append(trace, Response(r))
               /\ Return(s.value)
          ELSE /\ trace' = trace \o << Response(r), Heuristic("mockHeuristic") >>
               /\ Return(mockHeuristic(req.svgCode))
    /\ UNCHANGED <<opts, req, scanVars, fnVars, fixVars>>

\* the fetch of suggestWithVision settles with r: the rest of the function
\* and, in the catch block, suggestWithText up to its fetch
VisionSettles(r) ==
    /\ pc = "suggestWithVision"
    /\ LET s == settle(r, detectAIProvider(opts.endpoint))
       IN IF s.ok
          THEN /\ trace' = Append(trace, Response(r))
               /\ Return(s.value)
          ELSE /\ trace' = trace \o
                     << Response(r),
                        Warning("Falha na chamada de IA (visão), tentando modo texto: " \o errMessage(r)),
                        svgTextRequest >>
               /\ Await("suggestWithText")
    /\ UNCHANGED <<opts, req, scanVars, fnVars, fixVars>>

\* the fetch of suggestWithText settles with r, with a failed request sent
\* once more
TextSettles_retry(r) ==
    /\ pc = "suggestWithText"
    /\ LET s == settle(r, detectAIProvider(opts.endpoint))
       IN IF s.ok
          THEN /\ trace' = Append(trace, Response(r))
               /\ Return(s.value)
          ELSE IF Cardinality({ i \in 1..Len(trace) : trace[i] = svgTextRequest }) < 2
          THEN /\ trace' = trace \o << Response(r), svgTextRequest >>
               /\ Await("suggestWithText")
          ELSE /\ trace' = trace \o << Response(r), Heuristic("mockHeuristic") >>
               /\ Return(mockHeuristic(req.svgCode))
    /\ UNCHANGED <<opts, req, scanVars, fnVars, fixVars>>

\* the fetch of suggestWithText settles with r: the rest of the function
TextSettles(r) ==
    /\ pc = "suggestWithText"
    /\ LET s == settle(r, detectAIProvider(opts.endpoint))
       IN IF s.ok
          THEN /\ trace' = Append(trace, Response(r))
               /\ Return(s.value)
          ELSE /\ trace' = trace \o
                     << Response(r),
                        Warning("Falha na chamada de IA (texto), usando heurística local: " \o errMessage(r)),
                        Heuristic("mockHeuristic") >>
               /\ Return(mockHeuristic(req.svgCode))
    /\ UNCHANGED <<opts, req, scanVars, fnVars, fixVars>>

\* suggestForImg(img.src, img.tag, documentUri) up to its first fetch.
\* setting is the value of svgA11yAssist.useVision, fileExists what
\* existsSync answers and readOK whether readFileSync returns; req keeps the
\* setting if the call has read it and the file if it has looked for it.
SuggestForImg(img, hasDocumentUri, setting, fileExists, readOK) ==
    /\ pc = "idle"
    /\ LET useVision == effectiveUseVision(setting, opts)
           local     == HasCredentials(opts) /\ useVision
                        /\ ~isExternalUrl(img.src) /\ hasDocumentUri
           step      == localImgStep(fileExists, readOK)
           heuristic == Heuristic("mockImgHeuristic")
           value     == mockImgHeuristic(img.src, img.tag)
       IN /\ req' = [ NoRequest EXCEPT
                        !.kind = "img", !.imgSrc = img.src, !.imgTag = img.tag,
                        !.hasDocumentUri = hasDocumentUri,
                        !.setting = IF HasCredentials(opts) THEN setting ELSE "not read",
                        !.file = IF local
                                 THEN [ looked |-> TRUE, exists |-> fileExists,
                                        readable |-> readOK ]
                                 ELSE FileNotRead ]
          /\ IF ~HasCredentials(opts)
             THEN /\ trace' = <<heuristic>>
                  /\ Return(value)
             ELSE IF useVision /\ isExternalUrl(img.src)
             THEN IF isRelativePath(img.src)
                  THEN /\ trace' = <<heuristic>>
                       /\ Return(value)
                  ELSE /\ trace' = <<imgRequest("suggestImgWithVision", "vision")>>
                       /\ Await("suggestImgWithVision")
             ELSE IF useVision /\ hasDocumentUri
             THEN CASE step = "missing" ->
                         /\ trace' = << Warning("Arquivo de imagem não encontrado: "
                                                \o resolvePath(DocumentDir, img.src)),
                                        heuristic >>
                         /\ Return(value)
                    [] step = "unreadable" ->
                         /\ trace' = << Warning("Falha na análise de imagem local, usando heurística: read failed"),
                                        heuristic >>
                         /\ Return(value)
                    [] step = "send" ->
                         /\ trace' = <<imgRequest("suggestLocalImgWithVision", "vision")>>
                         /\ Await("suggestLocalImgWithVision")
             ELSE /\ trace' = <<imgRequest("suggestImgWithText", "text")>>
                  /\ Await("suggestImgWithText")
    /\ UNCHANGED <<opts, scanVars, fnVars, fixVars>>

\* the rest of an image function whose fetch settles with r; its catch
\* block warns with the given words and runs the image heuristic
imgSettles(r, words) ==
    /\ LET s == settle(r, detectAIProvider(opts.endpoint))
       IN IF s.ok
          THEN /\ trace' = Append(trace, Response(r))
               /\ Return(s.value)
          ELSE /\ trace' = trace \o
                     << Response(r),
                        Warning(words \o errMessage(r)),
                        Heuristic("mockImgHeuristic") >>
               /\ Return(mockImgHeuristic(req.imgSrc, req.imgTag))
    /\ UNCHANGED <<opts, req, scanVars, fnVars, fixVars>>

\* the fetch of suggestImgWithVision settles with r, with the catch block
\* going on to the text request
ImgVisionSettles_text(r) ==
    /\ pc = "suggestImgWithVision"
    /\ LET s == settle(r, detectAIProvider(opts.endpoint))
       IN IF s.ok
          THEN /\ trace' = Append(trace, Response(r))
               /\ Return(s.value)
          ELSE /\ trace' = trace \o
                     << Response(r), imgRequest("suggestImgWithText", "text") >>
               /\ Await("suggestImgWithText")
    /\ UNCHANGED <<opts, req, scanVars, fnVars, fixVars>>

\* the fetch of suggestImgWithVision settles with r
ImgVisionSettles(r) ==
    /\ pc = "suggestImgWithVision"
    /\ imgSettles(r, "Falha na análise de imagem com IA, usando heurística: ")

\* the fetch of suggestLocalImgWithVision settles with r
LocalImgVisionSettles(r) ==
    /\ pc = "suggestLocalImgWithVision"
    /\ imgSettles(r, "Falha na análise de imagem local, usando heurística: ")

\* the fetch of suggestImgWithText settles with r
ImgTextSettles(r) ==
    /\ pc = "suggestImgWithText"
    /\ imgSettles(r, "Falha na análise de imagem com IA, usando heurística: ")

Next ==
    \/ \E svgCode \in SvgSamples, renderOK \in BOOLEAN : SuggestForSvg(svgCode, renderOK)
    \/ \E r \in Outcomes : VisionSettles(r)
    \/ \E r \in Outcomes : TextSettles(r)
    \/ \E img \in ImgSamples, hasDocumentUri \in BOOLEAN, setting \in Settings,
          file \in FileStates :
          SuggestForImg(img, hasDocumentUri, setting, file[1], file[2])
    \/ \E r \in Outcomes : ImgVisionSettles(r)
    \/ \E r \in Outcomes : LocalImgVisionSettles(r)
    \/ \E r \in Outcomes : ImgTextSettles(r)

Spec == Init /\ [][Next]_vars

(***************************************************************************)
(* The functions of the client that read an endpoint, read a response or   *)
(* build an image block, each called on its own with arguments drawn from  *)
(* the sets below.                                                         *)
(***************************************************************************)

Restrict(f, K) == [k \in K |-> f[k]]

\* the words an endpoint is made of, each with the vendor it names
EndpointWords ==
    { [s |-> "openai", vendor |-> "openai"],
      [s |-> "OpenAI", vendor |-> "openai"],
      [s |-> "api.OPENAI", vendor |-> "openai"],
      [s |-> "anthropic", vendor |-> "claude"],
      [s |-> "Claude-3", vendor |-> "claude"],
      [s |-> "GOOGLE", vendor |-> "gemini"],
      [s |-> "gemini-pro", vendor |-> "gemini"],
      [s |-> "GenerativeLanguage", vendor |-> "gemini"],
      [s |-> "example", vendor |-> "unknown"],
      [s |-> "localhost", vendor |-> "unknown"] }

\* an endpoint with the first word in its host and the second in its path
EndpointOf(host, path) == "https://" \o host.s \o ".com/v1/" \o path.s

DetectCalls ==
    { [fn |-> "detectAIProvider", host |-> h, path |-> q] :
        h \in EndpointWords, q \in EndpointWords }

\* answers in the legacy form: each member present or absent
LegacyAnswers ==
    { JObj(Restrict( "isDecorative" :> JBool(b)
                     @@ "titleText" :> JStr(t)
                     @@ "descText" :> JStr("A magnifying glass"), K )) :
        b \in BOOLEAN, t \in {"Search", ""},
        K \in SUBSET {"isDecorative", "titleText", "descText"} }

\* the values of tipoImagem and of recomendacao in an answer
TipoImagemValues ==
    { JObj("impacto" :> JStr("baixo")),
      JObj("classificacao" :> JStr("Decorativa") @@ "impacto" :> JStr("baixo")),
      JObj("classificacao" :> JStr("Informativa") @@ "impacto" :> JStr("alto")) }

RecomendacaoValues ==
    { JObj(Restrict( "altText" :> JStr("Company logo")
                     @@ "descricaoLonga" :> JStr("A blue shield"), K )) :
        K \in SUBSET {"altText", "descricaoLonga"} }

\* answers with members of the WCAG form, each present or absent, beside
\* flat members of the legacy form
WcagAnswers ==
    { JObj(Restrict( "conformidade" :> JObj("status" :> JStr("conforme"))
                     @@ "tipoImagem" :> ti
                     @@ "recomendacao" :> re
                     @@ "codigoSugerido" :> JStr("<svg role=\"img\">")
                     @@ "isDecorative" :> JBool(TRUE)
                     @@ "titleText" :> JStr("Flat title"),
                     K \cup {"codigoSugerido", "isDecorative", "titleText"} )) :
        ti \in TipoImagemValues, re \in RecomendacaoValues,
        K \in SUBSET {"conformidade", "tipoImagem", "recomendacao"} }

\* the prose before and after the object of an answer
Surroundings ==
    { <<"", "">>,
      <<"Here it is: ", "">>,
      <<"Analysis:\n", "\nDone.">>,
      <<"", " Replace {name} as needed.">>,
      <<"Result: ", "\nExample of a decorative one: {\"isDecorative\":true}">> }

ParseCalls ==
    { [fn |-> "parseWCAGResponse", answer |-> a, before |-> sur[1], after |-> sur[2]] :
        a \in LegacyAnswers \cup WcagAnswers, sur \in Surroundings }

\* the text of the content a parse call is made with
AnswerText(c) == c.before \o JSONstringify(c.answer) \o c.after

\* the paths of a response body, in the order they are tried
Paths == << "choices", "content", "candidates", "response" >>

\* the answer a path of the body carries: it names the path
PathAnswer(path) ==
    JSONstringify(JObj( "isDecorative" :> JBool(FALSE)
                        @@ "titleText" :> JStr(path)
                        @@ "descText" :> JStr("") ))

\* the members of a body whose paths are absent, hold the empty string or
\* hold an answer
PathMember(path, c) ==
    CASE path = "choices" -> JArr(<< JObj("message" :> JObj("content" :> c)) >>)
      [] path = "content" -> JArr(<< JObj("type" :> JStr("text") @@ "text" :> c) >>)
      [] path = "candidates" ->
           JArr(<< JObj("content" :> JObj("parts" :> JArr(<< JObj("text" :> c) >>))) >>)
      [] OTHER -> c

PathStates == {"absent", "empty", "text"}

BodyWith(st) ==
    JObj([ k \in { k \in DOMAIN st : st[k] # "absent" } |->
             PathMember(k, JStr(IF st[k] = "empty" THEN "" ELSE PathAnswer(k))) ])

Providers == {"openai", "claude", "gemini", "unknown"}

ResponseCalls ==
    { [fn |-> "parseVisionResponse", provider |-> pr, paths |-> st] :
        pr \in Providers,
        st \in [ {"choices", "content", "candidates", "response"} -> PathStates ] }

\* images: a URL, or the bytes of a file in base64 with their MIME type
Images ==
    { [kind |-> "url", url |-> "https://cdn.example.com/img/logo-acme.png",
       base64 |-> "", mimeType |-> ""],
      [kind |-> "base64", url |-> "", base64 |-> "iVBORw0KGgo=", mimeType |-> "image/png"],
      [kind |-> "base64", url |-> "", base64 |-> "/9j/4AAQSkZJRg==", mimeType |-> "image/jpeg"] }

PayloadCalls ==
    { [fn |-> "buildImgPayload", provider |-> pr, image |-> im] :
        pr \in Providers, im \in Images }

\* the markup and the images the heuristics are called with
HeuristicCalls ==
    { [fn |-> "mockHeuristic", svgCode |-> c] : c \in SvgSamples }
    \cup { [fn |-> "mockImgHeuristic", img |-> i] :
              i \in ImgSamples
                   \cup { [src |-> "img/spacer.gif", tag |-> "<img src=\"img/spacer.gif\">"] } }

InitFn ==
    /\ Init
    /\ opts = [endpoint |-> "", apiKey |-> "", model |-> "", useVision |-> FALSE]

\* the function about to be called and its arguments
Call ==
    /\ call = NoCall
    /\ call' \in DetectCalls \cup ParseCalls \cup ResponseCalls \cup PayloadCalls
                 \cup HeuristicCalls
    /\ UNCHANGED <<ret, scanVars, clientVars, fixVars>>

DetectAIProvider ==
    /\ call.fn = "detectAIProvider"
    /\ ~ret.done
    /\ ret' = ReturnedValue(detectAIProvider(EndpointOf(call.host, call.path)))
    /\ UNCHANGED <<call, scanVars, clientVars, fixVars>>

ParseWCAGResponse ==
    /\ call.fn = "parseWCAGResponse"
    /\ ~ret.done
    /\ ret' = ReturnedValue(parseWCAGResponse(JStr(AnswerText(call))))
    /\ UNCHANGED <<call, scanVars, clientVars, fixVars>>

ParseVisionResponse ==
    /\ call.fn = "parseVisionResponse"
    /\ ~ret.done
    /\ ret' = ReturnedValue(parseVisionResponse(JSONstringify(BodyWith(call.paths)),
                                                 call.provider))
    /\ UNCHANGED <<call, scanVars, clientVars, fixVars>>

\* suggestImgWithVision builds the block of a URL, suggestLocalImgWithVision
\* that of the bytes of a file
BuildImgPayload ==
    /\ call.fn = "buildImgPayload"
    /\ ~ret.done
    /\ ret' = ReturnedValue(
                 IF call.image.kind = "url"
                 THEN buildImgVisionPayload(call.image.url, call.provider)
                 ELSE buildImgBase64Payload(call.image.base64, call.image.mimeType,
                                            call.provider))
    /\ UNCHANGED <<call, scanVars, clientVars, fixVars>>

MockHeuristic ==
    /\ call.fn = "mockHeuristic"
    /\ ~ret.done
    /\ ret' = ReturnedValue(Returned(mockHeuristic(call.svgCode)))
    /\ UNCHANGED <<call, scanVars, clientVars, fixVars>>

MockImgHeuristic ==
    /\ call.fn = "mockImgHeuristic"
    /\ ~ret.done
    /\ ret' = ReturnedValue(Returned(mockImgHeuristic(call.img.src, call.img.tag)))
    /\ UNCHANGED <<call, scanVars, clientVars, fixVars>>

NextFn ==
    \/ Call
    \/ MockHeuristic
    \/ MockImgHeuristic
    \/ DetectAIProvider
    \/ ParseWCAGResponse
    \/ ParseVisionResponse
    \/ BuildImgPayload

SpecFn == InitFn /\ [][NextFn]_vars

(***************************************************************************)
(* The two heuristics called on drawings and on image sources that are     *)
(* given by what they hold.                                                *)
(***************************************************************************)

\* the lines of a drawing, each by its y1 and y2
LineSets ==
    { << >>,
      << <<"6", "6">> >>,
      << <<"6", "18">>, <<"18", "6">> >>,
      << <<"6", "6">>, <<"12", "12">>, <<"18", "18">> >>,
      << <<"6", "6">>, <<"12", "14">>, <<"18", "18">> >> }

\* the path data of a drawing: none, a plain outline, the heart of the
\* Material icons, three sectors of a pie
PathSets ==
    { << >>,
      << "M3 3h18v18H3z" >>,
      << "M12 21.35l-1.45-1.32C5.4 15.36 2 12.28 2 8.5C2 5.42 4.42 3 7.5 3z" >>,
      << "M12 12 L20 12 A 8 8 0 0 1 12 20 Z",
         "M12 12 L12 20 A 8 8 0 0 1 4 12 Z",
         "M12 12 L4 12 A 8 8 0 1 1 20 12 Z" >> }

RectCounts == {0, 1, 3, 4}

\* the radius of the circle of a drawing, "" if it has none
CircleRadii == {"", "3", "8"}

ViewBoxes == {"", "0 0 24 24", "0 0 100 100"}

\* the class of the svg element, "" if it has none
SvgClasses == {"", "btn-download"}

Drawings ==
    [ viewBox : ViewBoxes, class : SvgClasses, rects : RectCounts, lines : LineSets,
      circle : CircleRadii, paths : PathSets, text : BOOLEAN ]

RenderLine(l) ==
    "<line x1=\"3\" y1=\"" \o l[1] \o "\" x2=\"21\" y2=\"" \o l[2] \o "\"/>"

RenderDrawing(d) ==
    "<svg"
    \o (IF d.viewBox = "" THEN "" ELSE " viewBox=\"" \o d.viewBox \o "\"")
    \o (IF d.class = "" THEN "" ELSE " class=\"" \o d.class \o "\"")
    \o ">"
    \o Concat([i \in 1..d.rects |-> "<rect x=\"2\" y=\"4\" width=\"3\" height=\"9\"/>"])
    \o Concat([i \in 1..Len(d.lines) |-> RenderLine(d.lines[i])])
    \o (IF d.circle = "" THEN ""
        ELSE "<circle cx=\"11\" cy=\"11\" r=\"" \o d.circle \o "\"/>")
    \o Concat([i \in 1..Len(d.paths) |-> "<path d=\"" \o d.paths[i] \o "\"/>"])
    \o (IF d.text THEN "<text x=\"2\" y=\"9\">Acme</text>" ELSE "")
    \o "</svg>"

DrawingCalls ==
    { [fn |-> "mockHeuristic", svgCode |-> RenderDrawing(d), drawing |-> d] :
        d \in Drawings }

\* the function about to be called and its arguments
CallHeuristic ==
    /\ call = NoCall
    /\ call' \in DrawingCalls
    /\ UNCHANGED <<ret, scanVars, clientVars, fixVars>>

NextHeur ==
    \/ CallHeuristic
    \/ MockHeuristic

SpecHeur == InitFn /\ [][NextHeur]_vars

(***************************************************************************)
(* Pictures: <img> tags described by what they hold.  The file name is one *)
(* or two words joined by "-"; a word is described by the rule groups its  *)
(* text belongs to (the row of the table and the label of that row) and by *)
(* what is left of it once digits are taken out.                           *)
(***************************************************************************)
Word(txt, dec, icon, iconTitle, logo, content, prefix, clean) ==
    [text |-> txt, dec |-> dec, icon |-> icon, iconTitle |-> iconTitle,
     logo |-> logo, content |-> content, prefix |-> prefix, clean |-> clean]

ImgWords ==
    { Word("spacer", TRUE, 0, "", FALSE, 0, "", "spacer"),
      Word("bg-image", TRUE, 0, "", FALSE, 0, "", "bg image"),
      Word("icon-search", FALSE, 1, "Pesquisar", FALSE, 0, "", "icon search"),
      Word("hamburger", FALSE, 2, "Menu", FALSE, 0, "", "hamburger"),
      Word("avatar", FALSE, 5, "Perfil do usuário", FALSE, 9, "Foto de perfil", "avatar"),
      Word("logo", FALSE, 0, "", TRUE, 0, "", "logo"),
      Word("brand", FALSE, 0, "", TRUE, 0, "", "brand"),
      Word("banner", FALSE, 0, "", FALSE, 1, "Banner promocional", "banner"),
      Word("photo", FALSE, 0, "", FALSE, 10, "Fotografia", "photo"),
      Word("map", FALSE, 0, "", FALSE, 13, "Mapa", "map"),
      Word("ferias", FALSE, 0, "", FALSE, 0, "", "ferias"),
      Word("ab", FALSE, 0, "", FALSE, 0, "", "ab"),
      Word("7", FALSE, 0, "", FALSE, 0, "", "") }

\* the other attributes of the tag: their text and the decorative and icon
\* markers it holds
Extra(txt, dec, icon, iconTitle) ==
    [text |-> txt, dec |-> dec, icon |-> icon, iconTitle |-> iconTitle]

ImgExtras ==
    { Extra("", FALSE, 0, ""),
      Extra(" class=\"hero\"", FALSE, 0, ""),
      Extra(" id=\"logo\"", FALSE, 0, ""),
      Extra(" style=\"border: 0\"", TRUE, 0, ""),
      Extra(" class=\"icon-search\"", FALSE, 1, "Pesquisar"),
      Extra(" class=\"hamburger\"", FALSE, 2, "Menu") }

ImgDirs == {"img/"}

ImgExts == {"", ".png"}

Pictures ==
    [ words : { <<w>> : w \in ImgWords } \cup (ImgWords \X ImgWords),
      dir : ImgDirs, ext : ImgExts, extra : ImgExtras ]

\* the src attribute of a picture
RenderSrc(p) ==
    p.dir
    \o p.words[1].text
    \o (IF Len(p.words) = 2 THEN "-" \o p.words[2].text ELSE "")
    \o p.ext

\* the <img> tag of a picture
RenderTag(p) == "<img" \o p.extra.text \o " src=\"" \o RenderSrc(p) \o "\">"

PictureCalls ==
    { [fn |-> "mockImgHeuristic",
       img |-> [src |-> RenderSrc(p), tag |-> RenderTag(p)],
       picture |-> p] : p \in Pictures }

\* mockImgHeuristic is about to be called with a source and its tag
CallImgHeuristic ==
    /\ call = NoCall
    /\ call' \in PictureCalls
    /\ UNCHANGED <<ret, scanVars, clientVars, fixVars>>

NextImg ==
    \/ CallImgHeuristic
    \/ MockImgHeuristic

SpecImg == InitFn /\ [][NextImg]_vars

(***************************************************************************)
(* extension.ts: the fix command for an svg.  applyFixForSvg scans the     *)
(* document, picks its target, and inside withProgress checks the token,   *)
(* awaits the suggestion, checks the token again, applies the edit and     *)
(* saves.  While it awaits, the user may cancel and the document may       *)
(* change; onDidChangeTextDocument refreshes the diagnostics.              *)
(***************************************************************************)

\* /re/i.test(s) for an expression that is a literal in lower case
testCI(s, lit) == includes(toLowerCase(s), lit)

\* tag.replace(/<svg(\b[^>]*)>/i, (_m, attrs) => `<svg${attrs}${added}>`)
addToOpeningTag(tag, added) ==
    LET m == SVG_OPEN_RE_search(tag, 1)
    IN IF m = 0 THEN tag
       ELSE LET gt == SVG_OPEN_RE_at(tag, m)
            IN SubSeq(tag, 1, gt - 1) \o added \o SubSeq(tag, gt, Len(tag))

HtmlChar(c) ==
    CASE c = "&" -> "&amp;"
      [] c = "<" -> "&lt;"
      [] c = ">" -> "&gt;"
      [] OTHER -> c

\* escapeHtml
escapeHtml(str) == Concat([i \in 1..Len(str) |-> HtmlChar(CharAt(str, i))])

\* doc.offsetAt(doc.positionAt(offset)): positionAt adjusts an offset beyond
\* the end of the document to its end
positionAt(t, offset) == IF offset > Len(t) THEN Len(t) ELSE offset

\* the values Math.random().toString(36).slice(2, 8) gives generateTitleId
TitleIds == {"svg-title-k3x9ab", "svg-title-0z"}

\* the title and desc elements inserted after the opening tag
titleAndDesc(suggestion, titleId) ==
    LET titleText == IF trim(suggestion.titleText) # "" THEN trim(suggestion.titleText)
                     ELSE "Gráfico"
        descText  == trim(suggestion.descText)
    IN "\n  " \o "<title id=\"" \o titleId \o "\">" \o escapeHtml(titleText) \o "</title>"
       \o (IF descText # "" THEN "\n  " \o "<desc>" \o escapeHtml(descText) \o "</desc>"
           ELSE "")
       \o "\n"

\* the opening tag of an informative svg: role and aria-labelledby added
\* where absent
informativeOpen(openingTagText, titleId) ==
    LET withRole == IF ~testCI(openingTagText, "role=")
                    THEN addToOpeningTag(openingTagText, " role=\"img\"")
                    ELSE openingTagText
    IN IF ~testCI(withRole, "aria-labelledby=")
       THEN addToOpeningTag(withRole, " aria-labelledby=\"" \o titleId \o "\"")
       ELSE withRole

\* buildWorkspaceEditForSuggestion on the document text t: the edits, each
\* replacing the range from start to end (offsets) by a text
buildWorkspaceEditForSuggestion(t, node, suggestion, titleId) ==
    LET start == positionAt(t, node.tagOpenRange.start)
        end   == positionAt(t, node.tagOpenRange.end)
        openingTagText == slice(t, start, end)
    IN IF suggestion.isDecorative
       THEN IF ~testCI(openingTagText, "aria-hidden=")
            THEN << [ start |-> start, end |-> end,
                      newText |-> addToOpeningTag(openingTagText, " aria-hidden=\"true\"") ] >>
            ELSE << >>
       ELSE << [ start |-> start, end |-> end,
                 newText |-> informativeOpen(openingTagText, titleId) ],
               [ start |-> end, end |-> end,
                 newText |-> titleAndDesc(suggestion, titleId) ] >>

\* vscode.workspace.applyEdit for the edits of buildWorkspaceEditForSuggestion:
\* the replacement of the opening tag and the insertion at its end
applyEdit(t, edit) ==
    IF edit = << >> THEN t
    ELSE slice(t, 0, edit[1].start)
         \o Concat([i \in 1..Len(edit) |-> edit[i].newText])
         \o slice(t, edit[1].end, Len(t))

\* the continuation of applyFixForSvg after the awaited suggestion: the
\* document text it leaves
afterSuggestion_ignoreToken(cancelled, t, node, suggestion, titleId) ==
    applyEdit(t, buildWorkspaceEditForSuggestion(t, node, suggestion, titleId))

afterSuggestion(cancelled, t, node, suggestion, titleId) ==
    IF cancelled THEN t
    ELSE applyEdit(t, buildWorkspaceEditForSuggestion(t, node, suggestion, titleId))

\* s.endsWith(lit)
endsWith(s, lit) == Len(s) >= Len(lit) /\ SubSeq(s, Len(s) - Len(lit) + 1, Len(s)) = lit

\* the length of s without the white space at its end
RECURSIVE LenTrimEnd(_, _)
LenTrimEnd(s, n) ==
    IF n > 0 /\ IsSpace(CharAt(s, n)) THEN LenTrimEnd(s, n - 1) ELSE n

\* tagText.replace(/\s*\/?>$/, closing)
replaceSlashClose(tagText, closing) ==
    IF ~endsWith(tagText, ">") THEN tagText
    ELSE LET n == IF endsWith(tagText, "/>") THEN Len(tagText) - 2 ELSE Len(tagText) - 1
         IN SubSeq(tagText, 1, LenTrimEnd(tagText, n)) \o closing

\* tagText.replace(/\s*>$/, closing)
replaceClose(tagText, closing) ==
    IF ~endsWith(tagText, ">") THEN tagText
    ELSE SubSeq(tagText, 1, LenTrimEnd(tagText, Len(tagText) - 1)) \o closing

\* buildWorkspaceEditForImg on the document text t
buildWorkspaceEditForImg(t, node, suggestion) ==
    LET start    == positionAt(t, node.tagRange.start)
        end      == positionAt(t, node.tagRange.end)
        tagText  == slice(t, start, end)
        altValue == IF suggestion.isDecorative THEN ""
                    ELSE escapeHtml(IF trim(suggestion.titleText) # ""
                                    THEN trim(suggestion.titleText) ELSE "Imagem")
    IN << [ start |-> start, end |-> end,
            newText |-> IF endsWith(tagText, "/>")
                        THEN replaceSlashClose(tagText, " alt=\"" \o altValue \o "\" />")
                        ELSE replaceClose(tagText, " alt=\"" \o altValue \o "\">") ] >>

\* the continuation of applyFixForImg after the awaited suggestion: the
\* document text it leaves
afterImgSuggestion(cancelled, t, node, suggestion) ==
    IF cancelled THEN t
    ELSE applyEdit(t, buildWorkspaceEditForImg(t, node, suggestion))

\* the first element of nodes in the set of positions S, else nodes[0]
FirstIn(nodes, S) == IF S = {} THEN nodes[1] ELSE nodes[MinOf(S)]

\* the target of the command: the node at the start of the diagnostic, or
\* the node around the cursor, or the first node
targetOf(nodes, where) ==
    IF where.by = "range"
    THEN FirstIn(nodes, { i \in DOMAIN nodes : nodes[i].start = where.offset })
    ELSE FirstIn(nodes, { i \in DOMAIN nodes :
                            nodes[i].start <= where.offset /\ where.offset <= nodes[i].end })

\* the documents of the fix command, piece by piece
FixTexts ==
    { << "<svg>", "</svg>" >>,
      << "<p>Hi</p>", "<svg class=\"a\">", "<text>R&D</text>", "</svg>" >>,
      << "<svg aria-hidden=\"false\">", "<path d=\"M0 0\"/>", "</svg>" >>,
      << "<svg role=\"img\">", "</svg>", "<SVG>", "<rect/><rect/><circle/>", "</svg>" >>,
      << "<svg aria-hidden=\"true\">", "</svg>" >>,
      << "<img src=\"img/photo.png\">" >>,
      << "<p>Hi</p>", "<img class=\"b\" src=\"https://cdn.example.com/team.png\" />",
         "<img src=\"a.gif\" alt=\"\">" >> }

FixDocs ==
    { [kind |-> "pieces", svg |-> NoSvg, img |-> NoImg, pieces |-> ps] : ps \in FixTexts }

\* the clients of the fix command: without credentials, with vision, with text
FixOpts ==
    { [endpoint |-> "", apiKey |-> "", model |-> "", useVision |-> FALSE],
      [endpoint |-> "https://api.openai.com/v1/chat/completions", apiKey |-> "sk-1",
       model |-> "", useVision |-> TRUE],
      [endpoint |-> "https://api.openai.com/v1/chat/completions", apiKey |-> "sk-1",
       model |-> "", useVision |-> FALSE] }

\* what the requests of the fix command settle with
FixOutcomes ==
    { NetworkError, Outcome(200, "openai", "legacy"), Outcome(200, "openai", "wcag") }

\* where the command was invoked: on a diagnostic that starts at an offset,
\* or with the cursor at an offset
FixWheres ==
    { [by |-> "range", offset |-> 0], [by |-> "range", offset |-> 22],
      [by |-> "cursor", offset |-> 30] }

\* the useVision setting at the time of an image request, and whether the
\* file of a local image exists and can be read
FixSettings == { Undefined, JBool(TRUE) }

FixFiles == { <<TRUE, TRUE>>, <<FALSE, FALSE>> }

\* what happens to the document while the command is under way
FixChanges == {"prepend", "append", "clear"}

ChangedText(t, c) ==
    CASE c = "prepend" -> "<p>new</p>" \o t
      [] c = "append" -> t \o "<!-- end -->"
      [] OTHER -> ""

InitFix ==
    /\ doc \in FixDocs
    /\ text = RenderDoc(doc)
    /\ svgNodes = NotScanned
    /\ imgNodes = NotScanned
    /\ svgLastIndex = 0
    /\ imgLastIndex = 0
    /\ calls = << >>
    /\ call = NoCall
    /\ ret = NotReturned
    /\ fix = NoFix
    /\ opts \in FixOpts
    /\ pc = "idle"
    /\ req = NoRequest
    /\ trace = << >>
    /\ result = Pending

\* refreshDiagnostics(doc): the document is scanned for svg and img nodes
RefreshDiagnostics ==
    /\ ~svgNodes.scanned
    /\ LET s == findSvgNodes(text, svgLastIndex)
           i == findImgNodes(text, imgLastIndex)
       IN /\ svgNodes' = Scanned(s.results)
          /\ svgLastIndex' = s.lastIndex
          /\ imgNodes' = Scanned(i.results)
          /\ imgLastIndex' = i.lastIndex
    /\ calls' = calls \o << [fn |-> "findSvgNodes", text |-> text],
                           [fn |-> "findImgNodes", text |-> text] >>
    /\ UNCHANGED <<doc, text, clientVars, fnVars, fixVars>>

\* applyFixForSvg up to withProgress; the command is offered on a
\* diagnostic, so the diagnostics have been computed
ApplyFixForSvg(where) ==
    /\ fix.pc = "idle"
    /\ svgNodes.scanned
    /\ LET r     == findSvgNodes(text, svgLastIndex)
           nodes == SelectSeq(r.results, needsAccessibility)
       IN /\ svgLastIndex' = r.lastIndex
          /\ fix' = IF nodes = << >> THEN [fix EXCEPT !.pc = "done"]
                    ELSE [fix EXCEPT !.kind = "svg", !.pc = "started",
                                     !.target = << targetOf(nodes, where) >>]
    /\ calls' = Append(calls, [fn |-> "findSvgNodes", text |-> text])
    /\ UNCHANGED <<doc, text, svgNodes, imgNodes, imgLastIndex, clientVars, fnVars>>

\* applyFixForImg up to withProgress
ApplyFixForImg(where) ==
    /\ fix.pc = "idle"
    /\ imgNodes.scanned
    /\ LET r     == findImgNodes(text, imgLastIndex)
           nodes == SelectSeq(r.results, imgNeedsAccessibility)
       IN /\ imgLastIndex' = r.lastIndex
          /\ fix' = IF nodes = << >> THEN [fix EXCEPT !.pc = "done"]
                    ELSE [fix EXCEPT !.kind = "img", !.pc = "started",
                                     !.target = << targetOf(nodes, where) >>]
    /\ calls' = Append(calls, [fn |-> "findImgNodes", text |-> text])
    /\ UNCHANGED <<doc, text, svgNodes, imgNodes, svgLastIndex, clientVars, fnVars>>

\* the event loop is free for the user while the command waits to run its
\* callback, awaits a fetch, or awaits applyEdit and save; the listener of
\* onDidChangeTextDocument has run for every change before that
UserCanAct ==
    /\ svgNodes.scanned
    /\ \/ fix.pc = "started"
       \/ fix.pc = "requesting" /\ pc \notin {"idle", "done"}
       \/ fix.pc = "saving"

\* the user cancels the progress notification
Cancel ==
    /\ UserCanAct
    /\ ~fix.cancelled
    /\ fix' = [fix EXCEPT !.cancelled = TRUE, !.cancelAt = fix.pc]
    /\ UNCHANGED <<scanVars, clientVars, fnVars>>

\* the document changes while the request of the command is in flight
DocChange(c) ==
    /\ UserCanAct
    /\ fix.pc = "requesting"
    /\ fix.change = "none"
    /\ text' = ChangedText(text, c)
    /\ fix' = [fix EXCEPT !.change = c]
    /\ svgNodes' = NotScanned
    /\ imgNodes' = NotScanned
    /\ UNCHANGED <<doc, svgLastIndex, imgLastIndex, calls, clientVars, fnVars>>

\* the callback of withProgress up to the call of suggestForSvg or
\* suggestForImg
FirstCheck ==
    /\ fix.pc = "started"
    /\ svgNodes.scanned
    /\ fix' = [fix EXCEPT !.pc = IF fix.cancelled THEN "done" ELSE "requesting"]
    /\ UNCHANGED <<scanVars, clientVars, fnVars>>

\* iaClient.suggestForSvg(target.content)
RequestSuggestion(renderOK) ==
    /\ fix.pc = "requesting"
    /\ fix.kind = "svg"
    /\ SuggestForSvg(fix.target[1].content, renderOK)

\* iaClient.suggestForImg(target.src, target.content, doc.uri)
RequestImgSuggestion(setting, fileExists, readOK) ==
    /\ fix.pc = "requesting"
    /\ fix.kind = "img"
    /\ SuggestForImg([src |-> fix.target[1].src, tag |-> fix.target[1].content],
                     TRUE, setting, fileExists, readOK)

\* the callback from the point where the suggestion arrives up to applyEdit
AfterSuggestion(titleId) ==
    /\ fix.pc = "requesting"
    /\ fix.kind = "svg"
    /\ pc = "done"
    /\ text' = afterSuggestion(fix.cancelled, text, fix.target[1], result.value, titleId)
    /\ fix' = IF fix.cancelled THEN [fix EXCEPT !.pc = "done"]
              ELSE [fix EXCEPT !.pc = "saving", !.applied = TRUE, !.titleId = titleId]
    /\ svgNodes' = IF text' # text THEN NotScanned ELSE svgNodes
    /\ imgNodes' = IF text' # text THEN NotScanned ELSE imgNodes
    /\ UNCHANGED <<doc, svgLastIndex, imgLastIndex, calls, clientVars, fnVars>>

\* the callback of applyFixForImg from the point where the suggestion
\* arrives up to applyEdit
AfterImgSuggestion ==
    /\ fix.pc = "requesting"
    /\ fix.kind = "img"
    /\ pc = "done"
    /\ text' = afterImgSuggestion(fix.cancelled, text, fix.target[1], result.value)
    /\ fix' = IF fix.cancelled THEN [fix EXCEPT !.pc = "done"]
              ELSE [fix EXCEPT !.pc = "saving", !.applied = TRUE]
    /\ svgNodes' = IF text' # text THEN NotScanned ELSE svgNodes
    /\ imgNodes' = IF text' # text THEN NotScanned ELSE imgNodes
    /\ UNCHANGED <<doc, svgLastIndex, imgLastIndex, calls, clientVars, fnVars>>

\* doc.save() returns and the command ends
Saved ==
    /\ fix.pc = "saving"
    /\ svgNodes.scanned
    /\ fix' = [fix EXCEPT !.pc = "done"]
    /\ UNCHANGED <<scanVars, clientVars, fnVars>>

NextFix ==
    \/ RefreshDiagnostics
    \/ \E where \in FixWheres : ApplyFixForSvg(where)
    \/ \E where \in FixWheres : ApplyFixForImg(where)
    \/ Cancel
    \/ \E c \in FixChanges : DocChange(c)
    \/ FirstCheck
    \/ \E renderOK \in BOOLEAN : RequestSuggestion(renderOK)
    \/ \E r \in FixOutcomes : VisionSettles(r)
    \/ \E r \in FixOutcomes : TextSettles(r)
    \/ \E setting \in FixSettings, file \in FixFiles :
          RequestImgSuggestion(setting, file[1], file[2])
    \/ \E r \in FixOutcomes : ImgVisionSettles(r)
    \/ \E r \in FixOutcomes : LocalImgVisionSettles(r)
    \/ \E r \in FixOutcomes : ImgTextSettles(r)
    \/ \E titleId \in TitleIds : AfterSuggestion(titleId)
    \/ AfterImgSuggestion
    \/ Saved

SpecFix == InitFix /\ [][NextFix]_vars

(***************************************************************************)
(* Claims about the suggestion pipeline (checked under Spec).  A claim     *)
(* speaks of a response by what the server sent (the outcome's status,     *)
(* shape and content), not by what the client's parser made of it.         *)
(***************************************************************************)

\* the vendor the client takes its endpoint for
Provider == detectAIProvider(opts.endpoint)

RequestsAt == { i \in DOMAIN trace : trace[i].ev = "request" }

StrategyAt(strategy) == { i \in RequestsAt : trace[i].strategy = strategy }

ResponsesAt == { i \in DOMAIN trace : trace[i].ev = "response" }

WarningsAt == { i \in DOMAIN trace : trace[i].ev = "warning" }

HeuristicsAt == { i \in DOMAIN trace : trace[i].ev = "heuristic" }

\* the response bodies that hold the answer where the provider's vendor
\* puts it; an endpoint of no known vendor is looked up as OpenAI, as
\* Anthropic and in a "response" field
ContentShapes(provider) ==
    CASE provider = "openai" -> {"openai"}
      [] provider = "claude" -> {"claude"}
      [] provider = "gemini" -> {"gemini"}
      [] OTHER -> {"openai", "claude", "response"}

\* the failures of a request: fetch throws, a status that is not 2xx, a
\* body that is not JSON, no content at the vendor's path, no JSON object
\* in the content, an object that is invalid JSON
Failure(r, provider) ==
    \/ r.threw
    \/ r.status < 200
    \/ r.status > 299
    \/ r.shape = "notjson"
    \/ r.shape \notin ContentShapes(provider)
    \/ r.content \in {"prose", "badobj"}

\* a 2xx JSON object with no content at any known path, sent to a client
\* whose endpoint is of no known vendor
WholeBodyCase(r, provider) ==
    /\ provider = "unknown"
    /\ ~r.threw
    /\ r.status >= 200
    /\ r.status <= 299
    /\ r.shape \in {"nopath", "gemini", "direct"}

\* the members isDecorative, titleText and descText of the body itself,
\* one that is absent read as false or empty
WholeBodyReading(r) ==
    IF r.shape = "direct"
    THEN [ isDecorative |-> FALSE, titleText |-> "Search products",
           descText |-> "", wcagAnalysis |-> Undefined ]
    ELSE [ isDecorative |-> FALSE, titleText |-> "",
           descText |-> "", wcagAnalysis |-> Undefined ]

\* the call is one of suggestForSvg with credentials and vision disabled
TextOnlySvg ==
    /\ req.kind = "svg"
    /\ opts.endpoint # ""
    /\ opts.apiKey # ""
    /\ ~opts.useVision

\* C1 as stated: with endpoint and API key configured and vision disabled,
\* whenever the text request of suggestForSvg fails in any of the listed
\* ways, the call resolves with exactly the value of the SVG heuristic for
\* the same markup.
C1_AnyTextFailureGivesHeuristic ==
    \A i \in ResponsesAt :
        (TextOnlySvg /\ Failure(trace[i].outcome, Provider))
            => result = Resolved(mockHeuristic(req.svgCode))

\* C1 amended: the same, except that for an endpoint of no known vendor a
\* 2xx JSON object with no content at a known path is no failure: the call
\* resolves with the reading of the body itself and the heuristic is not
\* run.
C1_TextFailureGivesHeuristic ==
    \A i \in ResponsesAt :
        TextOnlySvg =>
            IF WholeBodyCase(trace[i].outcome, Provider)
            THEN /\ result = Resolved(WholeBodyReading(trace[i].outcome))
                 /\ HeuristicsAt = {}
            ELSE Failure(trace[i].outcome, Provider)
                     => /\ result = Resolved(mockHeuristic(req.svgCode))
                        /\ HeuristicsAt # {}

\* a text request of suggestForSvg was answered with an object that is
\* invalid JSON, and the call is over
C1_Witness ==
    /\ TextOnlySvg
    /\ pc = "done"
    /\ \E i \in ResponsesAt : trace[i].outcome.content = "badobj"
    /\ HeuristicsAt # {}

\* C2: if the endpoint or the API key is empty, suggestForSvg and
\* suggestForImg return the result of the local heuristic and send no
\* request, whatever useVision is.  (A missing option and an empty one are
\* the same to the test the code makes; the model holds the empty string.)
C2_NoCredentialsNoRequest ==
    (pc # "idle" /\ (opts.endpoint = "" \/ opts.apiKey = ""))
        => /\ RequestsAt = {}
           /\ pc = "done"
           /\ result = Resolved(IF req.kind = "svg"
                                THEN mockHeuristic(req.svgCode)
                                ELSE mockImgHeuristic(req.imgSrc, req.imgTag))

\* a call of suggestForImg is over on a client with an endpoint, no key
\* and useVision set
C2_Witness ==
    /\ pc = "done"
    /\ req.kind = "img"
    /\ opts.endpoint # ""
    /\ opts.apiKey = ""
    /\ opts.useVision
    /\ HeuristicsAt # {}

\* the call is one of suggestForSvg with credentials and useVision set
VisionSvg ==
    /\ req.kind = "svg"
    /\ opts.endpoint # ""
    /\ opts.apiKey # ""
    /\ opts.useVision

\* the request at place i of the trace was answered, at place i + 1, with
\* a failure
FailedAt(i) ==
    /\ i \in RequestsAt
    /\ i + 1 \in ResponsesAt
    /\ Failure(trace[i + 1].outcome, Provider)
    /\ ~WholeBodyCase(trace[i + 1].outcome, Provider)

\* the place of the trace where the vision attempt of suggestForSvg has
\* failed: 0 if the rendering failed, before any request; 2 if the request
\* failed; -1 if the attempt has not failed
VisionFailedAt ==
    IF trace # << >> /\ trace[1].ev = "warning" THEN 0
    ELSE IF 1 \in StrategyAt("vision") /\ FailedAt(1) THEN 2
    ELSE -1

\* C3: for an SVG request with credentials and useVision set, when the
\* vision attempt fails (render error, network error, non-2xx, response
\* that cannot be parsed) the next thing the pipeline does is one text
\* request, the only one of the call; the heuristic runs only after that
\* text request has failed too.
C3_VisionFailureThenOneTextRequest ==
    VisionSvg =>
        /\ VisionFailedAt >= 0
              => /\ Len(trace) >= VisionFailedAt + 2
                 /\ trace[VisionFailedAt + 1].ev = "warning"
                 /\ trace[VisionFailedAt + 2] = svgTextRequest
                 /\ StrategyAt("text") = {VisionFailedAt + 2}
        /\ \A h \in HeuristicsAt :
               \E t \in StrategyAt("text") : t < h /\ FailedAt(t)

\* the vision request of suggestForSvg failed, so did the text request,
\* and the heuristic has run
C3_Witness ==
    /\ VisionSvg
    /\ VisionFailedAt = 2
    /\ pc = "done"
    /\ HeuristicsAt # {}

\* C4: a suggestion request (SVG or img) sends at most two network
\* requests, at most one vision request and at most one text request; no
\* vision request follows a text request, and no request follows a run of
\* the heuristic.
C4_AtMostOneRequestPerStrategy ==
    /\ Cardinality(RequestsAt) <= 2
    /\ Cardinality(StrategyAt("vision")) <= 1
    /\ Cardinality(StrategyAt("text")) <= 1
    /\ RequestsAt = StrategyAt("vision") \cup StrategyAt("text")
    /\ \A t \in StrategyAt("text"), v \in StrategyAt("vision") : v < t
    /\ \A h \in HeuristicsAt, i \in RequestsAt : i < h

\* a call that sent a vision request and then a text request is over, the
\* heuristic having run
C4_Witness ==
    /\ pc = "done"
    /\ StrategyAt("vision") # {}
    /\ StrategyAt("text") # {}
    /\ HeuristicsAt # {}

\* the call is one of suggestForImg with credentials and vision enabled
\* (the setting svgA11yAssist.useVision, or the option where it is unset)
VisionImg ==
    /\ req.kind = "img"
    /\ opts.endpoint # ""
    /\ opts.apiKey # ""
    /\ req.setting \in Settings
    /\ IF req.setting = Undefined THEN opts.useVision ELSE req.setting = JBool(TRUE)

\* the source is no http, https or data source
LocalSource == isRelativePath(req.imgSrc)

\* the vision request for an image (an external one, or a local one whose
\* file was read) has failed
ImgVisionFailed ==
    /\ 1 \in StrategyAt("vision")
    /\ FailedAt(1)

\* C5 as stated: with credentials and vision enabled, when the vision
\* request for an image fails the pipeline goes on to the text request for
\* that image, and runs the image heuristic only if that fails too.
C5_ImgVisionFailureThenText ==
    (VisionImg /\ ImgVisionFailed)
        => /\ StrategyAt("text") # {}
           /\ \A h \in HeuristicsAt :
                  \E t \in StrategyAt("text") : t < h /\ FailedAt(t)

\* C5 amended: with credentials and vision enabled, when the vision
\* request for an image (external, or a local file that was read) fails,
\* the call warns and resolves with the image heuristic at once; no text
\* request is sent.
C5_ImgVisionFailureThenHeuristic ==
    (VisionImg /\ ImgVisionFailed)
        => /\ StrategyAt("text") = {}
           /\ pc = "done"
           /\ WarningsAt = {Len(trace) - 1}
           /\ HeuristicsAt = {Len(trace)}
           /\ result = Resolved(mockImgHeuristic(req.imgSrc, req.imgTag))

\* the vision request for an external image failed and the call is over
C5_Witness ==
    /\ VisionImg
    /\ ~LocalSource
    /\ ImgVisionFailed
    /\ pc = "done"

\* C6: with credentials and vision enabled, for an img whose local source
\* file does not exist, suggestForImg resolves with the result of the image
\* heuristic, shows a warning and sends no request.
C6_MissingFileGivesHeuristic ==
    (VisionImg /\ LocalSource /\ req.hasDocumentUri /\ req.file.looked /\ ~req.file.exists)
        => /\ pc = "done"
           /\ result = Resolved(mockImgHeuristic(req.imgSrc, req.imgTag))
           /\ WarningsAt # {}
           /\ RequestsAt = {}

\* a call for a local image whose file does not exist is over
C6_Witness ==
    /\ VisionImg
    /\ LocalSource
    /\ req.hasDocumentUri
    /\ req.file.looked
    /\ ~req.file.exists
    /\ pc = "done"
    /\ HeuristicsAt # {}

\* C7 as stated: with credentials and vision enabled, for an img whose
\* source is a local path and with no document location to resolve it
\* against, suggestForImg goes to the image heuristic directly and sends
\* no request of any kind.
C7_NoDocumentNoRequest ==
    (VisionImg /\ LocalSource /\ ~req.hasDocumentUri)
        => /\ RequestsAt = {}
           /\ pc = "done"
           /\ result = Resolved(mockImgHeuristic(req.imgSrc, req.imgTag))

\* C7 amended: in that case suggestForImg sends the text request for the
\* image, and no vision request; the image heuristic runs only if the text
\* request fails.
C7_NoDocumentTextRequest ==
    (VisionImg /\ LocalSource /\ ~req.hasDocumentUri)
        => /\ trace # << >>
           /\ trace[1] = imgRequest("suggestImgWithText", "text")
           /\ RequestsAt = {1}
           /\ HeuristicsAt # {} <=> FailedAt(1)
           /\ FailedAt(1) => result = Resolved(mockImgHeuristic(req.imgSrc, req.imgTag))

\* a call for a local image with no document location is over, its text
\* request having failed
C7_Witness ==
    /\ VisionImg
    /\ LocalSource
    /\ ~req.hasDocumentUri
    /\ pc = "done"
    /\ FailedAt(1)


(***************************************************************************)
(* Claims about the scanner and the predicates (checked under SpecScan).   *)
(***************************************************************************)

\* the scanned node that starts at offset o, as a set (empty if none)
SvgNodesAt(o) ==
    { svgNodes.results[i] :
        i \in { j \in 1..Len(svgNodes.results) : svgNodes.results[j].start = o } }

ImgNodesAt(o) ==
    { imgNodes.results[i] :
        i \in { j \in 1..Len(imgNodes.results) : imgNodes.results[j].start = o } }

SvgFacts ==
    { [hasAriaHidden |-> h, hasTitle |-> t, hasDesc |-> d] :
        h \in BOOLEAN, t \in BOOLEAN, d \in BOOLEAN }

\* C8: needsAccessibility(node) is true exactly when hasAriaHidden, hasTitle
\* and hasDesc are all false, for each of the eight combinations of the
\* facts and for every node the scanner has produced.
C8_NeedsFixIffNoFact ==
    /\ \A f \in SvgFacts :
          needsAccessibility(f)
            <=> (f.hasAriaHidden = FALSE /\ f.hasTitle = FALSE /\ f.hasDesc = FALSE)
    /\ \A i \in 1..Len(svgNodes.results) :
          needsAccessibility(svgNodes.results[i])
            <=> ( /\ svgNodes.results[i].hasAriaHidden = FALSE
                  /\ svgNodes.results[i].hasTitle = FALSE
                  /\ svgNodes.results[i].hasDesc = FALSE )

\* a scan has produced a node that has a desc, no title and no aria-hidden,
\* and one that has none of the three
C8_Witness ==
    /\ svgNodes.scanned
    /\ \E i \in 1..Len(svgNodes.results) :
          /\ svgNodes.results[i].hasDesc
          /\ ~svgNodes.results[i].hasTitle
          /\ ~svgNodes.results[i].hasAriaHidden
          /\ ~needsAccessibility(svgNodes.results[i])
    /\ \E i \in 1..Len(svgNodes.results) :
          /\ ~svgNodes.results[i].hasDesc
          /\ ~svgNodes.results[i].hasTitle
          /\ ~svgNodes.results[i].hasAriaHidden
          /\ needsAccessibility(svgNodes.results[i])

\* C9: for every <img> tag found by findImgNodes, a tag that has an alt
\* attribute (even an empty one) does not need a fix, and a tag with no alt
\* attribute, no aria-hidden "true" and no role presentation/none needs one.
C9_ImgAltDecides ==
    doc.kind = "img" =>
        \A n \in ImgNodesAt(0) :
            /\ TagHasAttr(doc.img, "alt") => ~imgNeedsAccessibility(n)
            /\ ( /\ ~TagHasAttr(doc.img, "alt")
                 /\ ~TagHasAttrIn(doc.img, "aria-hidden", {"true"})
                 /\ ~TagHasAttrIn(doc.img, "role", {"presentation", "none"}) )
               => imgNeedsAccessibility(n)

\* offset of the i-th child of the element e in RenderSvg(e)
KidOffset(e, i) ==
    Len("<svg" \o e.attrs \o ">")
    + Len(Concat([j \in 1..(i - 1) |-> RenderKid(e.kids[j])]))

\* a <title> or <desc> lies between the opening tag of e and the first
\* </svg> that follows that opening tag
TitleOrDescBeforeFirstClose(e) ==
    \E i \in 1..Len(e.kids) :
        /\ \A j \in 1..(i - 1) : e.kids[j].k # "svg"
        /\ \/ e.kids[i].td
           \/ \E j \in 1..Len(e.kids[i].kids) : e.kids[i].kids[j].td

\* C10 as stated: a well-formed svg element that contains a <title> or
\* <desc> anywhere between its opening tag and its own closing tag, nested
\* svg elements included, is reported with needsAccessibility false.
C10_TitleAnywhere ==
    doc.kind = "svg" =>
        \A n \in SvgNodesAt(0) :
            ContainsTitleOrDesc(doc.svg) => ~needsAccessibility(n)

\* C10, amended: an svg element with a <title> or <desc> between its opening
\* tag and the first </svg> after that tag is reported with
\* needsAccessibility false; this covers every element with no svg nested
\* before the title or desc, and each nested element itself.
C10_TitleBeforeFirstClose ==
    doc.kind = "svg" =>
        /\ \A n \in SvgNodesAt(0) :
              TitleOrDescBeforeFirstClose(doc.svg) => ~needsAccessibility(n)
        /\ \A i \in 1..Len(doc.svg.kids) :
              ( /\ doc.svg.kids[i].k = "svg"
                /\ \E j \in 1..Len(doc.svg.kids[i].kids) : doc.svg.kids[i].kids[j].td )
              => \A n \in SvgNodesAt(KidOffset(doc.svg, i)) : ~needsAccessibility(n)

\* scanned: an element with no aria-hidden whose only title or desc is a
\* <desc> that follows a leaf, reported as not needing a fix
C10_Witness ==
    /\ doc.kind = "svg"
    /\ doc.svg.attrs = ""
    /\ Len(doc.svg.kids) = 2
    /\ doc.svg.kids[1].k = "leaf" /\ ~doc.svg.kids[1].td
    /\ doc.svg.kids[2].s = "<desc>d</desc>"
    /\ \E n \in SvgNodesAt(0) : n.hasDesc /\ ~n.hasTitle /\ ~needsAccessibility(n)

\* ---- the scanners on texts that need not be well formed ----

\* offset of piece i in the text of a sequence of pieces
PieceOffset(ps, i) == Len(ConcatRange(ps, 1, i - 1))

\* the pieces after piece i that are a literal </svg>
ClosesAfter(ps, i) == { j \in (i + 1)..Len(ps) : ps[j] = "</svg>" }

\* the opening tags with a literal </svg> somewhere after them
ClosedOpenings(ps) ==
    { i \in 1..Len(ps) : ps[i] \in OpenPieces /\ ClosesAfter(ps, i) # {} }

\* the offset just after the first </svg> that follows piece i
FirstCloseEnd(ps, i) == PieceOffset(ps, MinOr0(ClosesAfter(ps, i))) + Len("</svg>")

\* C11: findSvgNodes returns exactly one node for each <svg ...> opening tag
\* with a literal </svg> somewhere after it, the node ending just after the
\* first </svg> that follows the opening tag; opening tags with no </svg>
\* after them give no node; the nodes come by strictly increasing start.
C11_OneNodePerClosedOpening ==
    svgNodes.scanned =>
        /\ \A k \in 1..(Len(svgNodes.results) - 1) :
              svgNodes.results[k].start < svgNodes.results[k + 1].start
        /\ doc.kind = "pieces" =>
              /\ Len(svgNodes.results) = Cardinality(ClosedOpenings(doc.pieces))
              /\ \A i \in ClosedOpenings(doc.pieces) :
                    \E n \in SvgNodesAt(PieceOffset(doc.pieces, i)) :
                        n.end = FirstCloseEnd(doc.pieces, i)

\* scanned: an svg element followed by an opening tag, in upper case, that
\* nothing closes: one node, ending just after the </svg>
C11_Witness ==
    /\ doc.kind = "pieces"
    /\ doc.pieces = << "<svg>", "</svg>", "<SVG id=\"a\">" >>
    /\ svgNodes.scanned
    /\ Len(svgNodes.results) = 1
    /\ svgNodes.results[1].end = Len("<svg></svg>")

\* C12: every node of findSvgNodes and findImgNodes has
\* 0 <= start < end <= length(text) and its raw markup is text[start, end);
\* an svg node's opening tag span starts at start and ends at or before end.
C12_NodesAreSlices ==
    /\ \A k \in 1..Len(svgNodes.results) :
          \E n \in {svgNodes.results[k]} :
              /\ 0 <= n.start /\ n.start < n.end /\ n.end <= Len(text)
              /\ n.content = slice(text, n.start, n.end)
              /\ n.tagOpenRange.start = n.start
              /\ n.tagOpenRange.end <= n.end
    /\ \A k \in 1..Len(imgNodes.results) :
          \E n \in {imgNodes.results[k]} :
              /\ 0 <= n.start /\ n.start < n.end /\ n.end <= Len(text)
              /\ n.content = slice(text, n.start, n.end)

\* both scanners have run on a text with an img tag followed by an svg
\* element: one node each, the svg node away from offset 0
C12_Witness ==
    /\ doc.kind = "pieces"
    /\ doc.pieces = << "<img alt=\"\">", "<svg>", "</svg>" >>
    /\ Len(imgNodes.results) = 1
    /\ Len(svgNodes.results) = 1
    /\ svgNodes.results[1].start = Len("<img alt=\"\">")
    /\ svgNodes.results[1].content = "<svg></svg>"

\* C13: the scanners are history-free: after any sequence of earlier calls on
\* any texts, a call returns what a first call on the current text returns,
\* and leaves the lastIndex of the shared regular expression at 0. (The
\* heuristic classifier keeps nothing between calls: its regular expressions
\* are literals of the call, so it is an operator of its input alone.)
C13_ScansDependOnTextOnly ==
    /\ svgLastIndex = 0
    /\ imgLastIndex = 0
    /\ svgNodes.scanned => svgNodes.results = findSvgLoop(text, 0, << >>).results
    /\ imgNodes.scanned => imgNodes.results = findImgLoop(text, 0, << >>).results

\* a scan of a text with an svg element that comes after a scan of another
\* text whose last opening tag is never closed
C13_Witness ==
    /\ Len(calls) = 2
    /\ calls[1].fn = "findSvgNodes"
    /\ calls[1].text = "<svg></svg><svg>"
    /\ calls[2].fn = "findSvgNodes"
    /\ calls[2].text = "<svg></svg>"
    /\ text = "<svg></svg>"
    /\ svgNodes.scanned
    /\ Len(svgNodes.results) = 1

\* ---- the headers of the requests ----

\* C19: every request to an Anthropic endpoint, in text and in vision mode,
\* for svg and for img, carries x-api-key and anthropic-version and no
\* Authorization header; every request to another provider carries
\* Authorization: Bearer <apiKey> and no x-api-key.
C19_HeadersByVendor ==
    \A i \in RequestsAt :
        IF trace[i].provider = "claude"
        THEN /\ "x-api-key" \in DOMAIN trace[i].headers
             /\ "anthropic-version" \in DOMAIN trace[i].headers
             /\ "Authorization" \notin DOMAIN trace[i].headers
        ELSE /\ "Authorization" \in DOMAIN trace[i].headers
             /\ trace[i].headers["Authorization"] = "Bearer " \o opts.apiKey
             /\ "x-api-key" \notin DOMAIN trace[i].headers

\* ---- the functions that read an endpoint or a response ----

\* the call of the function fn has returned
Called(fn) == call.fn = fn /\ ret.done

\* C14: parseWCAGResponse locates the first balanced {...} object in the
\* text and parses it, whatever prose, braces or further objects surround
\* it: the text of every call holds a valid object with no brace before it,
\* so every call returns what that object reads as.
C14_FirstBalancedObject ==
    Called("parseWCAGResponse") =>
        ret.value = Returned(suggestionOf(call.answer))

\* the member k of the object o, d if o has no such member
MemberOr(o, k, d) == IF k \in DOMAIN o.f THEN o.f[k] ELSE d

HasWcagForm(a) == {"conformidade", "tipoImagem", "recomendacao"} \subseteq DOMAIN a.f

C16_DecorativeHasNoText ==
    ( /\ \/ Called("parseWCAGResponse")
         \/ Called("mockHeuristic")
         \/ Called("mockImgHeuristic")
      /\ ret.value.ok
      /\ ret.value.value.isDecorative )
    => /\ ret.value.value.titleText = ""
       /\ ret.value.value.descText = ""

\* the vendor the words of an endpoint name: openai before claude before
\* gemini
ExpectedVendor(c) ==
    IF "openai" \in {c.host.vendor, c.path.vendor} THEN "openai"
    ELSE IF "claude" \in {c.host.vendor, c.path.vendor} THEN "claude"
    ELSE IF "gemini" \in {c.host.vendor, c.path.vendor} THEN "gemini"
    ELSE "unknown"

\* C17: detectAIProvider is total and case-insensitive: openai if the
\* endpoint contains "openai"; else claude if it contains "anthropic" or
\* "claude"; else gemini if it contains "google", "gemini" or
\* "generativelanguage"; else unknown.
C17_VendorByWords ==
    Called("detectAIProvider") => ret.value = ExpectedVendor(call)

\* an endpoint with Claude in its host and OpenAI in its path, in mixed
\* case, is taken for openai
C17_Witness ==
    /\ Called("detectAIProvider")
    /\ call.host.s = "Claude-3"
    /\ call.path.s = "OpenAI"
    /\ ret.value = "openai"

\* the paths that hold an answer, in the order of Paths
TextPaths(st) == { i \in DOMAIN Paths : st[Paths[i]] = "text" }

\* the vendor's own path
OwnPath(provider) ==
    CASE provider = "openai" -> "choices"
      [] provider = "claude" -> "content"
      [] provider = "gemini" -> "candidates"

\* the path whose answer is to be read: for a provider that is not known
\* the first among choices, content, candidates, response that is not
\* empty, "whole" if there is none; for a known provider its own path,
\* "none" if that is empty
ExpectedPath(c) ==
    IF c.provider = "unknown"
    THEN IF TextPaths(c.paths) = {} THEN "whole" ELSE Paths[MinOf(TextPaths(c.paths))]
    ELSE IF c.paths[OwnPath(c.provider)] = "text" THEN OwnPath(c.provider) ELSE "none"

\* C18: for a provider that is not known the text read is the first
\* non-empty of choices[0].message.content, content[0].text,
\* candidates[0].content.parts[0].text and response, and the stringified
\* body only if all are absent; for a known provider only its own path is
\* read. (Each path carries an answer whose titleText names the path.)
C18_FirstNonEmptyPath ==
    Called("parseVisionResponse") =>
        CASE ExpectedPath(call) = "none" -> ~ret.value.ok
          [] ExpectedPath(call) = "whole" ->
               ret.value.ok /\ ret.value.value.titleText = ""
          [] OTHER ->
               ret.value.ok /\ ret.value.value.titleText = ExpectedPath(call)

\* the url member an OpenAI image block carries for an image
ImageUrlOf(im) ==
    IF im.kind = "url" THEN im.url
    ELSE "data:" \o im.mimeType \o ";base64," \o im.base64

\* C20: the image block of a vision request has the vendor's shape, for an
\* image in base64 and for a URL: openai {type: "image_url", image_url:
\* {url, detail: "high"}}; claude {type: "image", source: {type: "base64" or
\* "url", media_type, data or url}}; gemini {inlineData: {mimeType, data}}.
C20_VendorImageBlock ==
    Called("buildImgPayload") =>
        CASE call.provider = "openai" ->
               ret.value = JObj( "type" :> JStr("image_url")
                                 @@ "image_url" :>
                                      JObj( "url" :> JStr(ImageUrlOf(call.image))
                                            @@ "detail" :> JStr("high") ) )
          [] call.provider = "claude" ->
               /\ Prop(ret.value, "type") = JStr("image")
               /\ Prop(Prop(ret.value, "source"), "type") = JStr(call.image.kind)
               /\ IF call.image.kind = "url"
                  THEN Prop(Prop(ret.value, "source"), "url") = JStr(call.image.url)
                  ELSE /\ Prop(Prop(ret.value, "source"), "media_type")
                            = JStr(call.image.mimeType)
                       /\ Prop(Prop(ret.value, "source"), "data") = JStr(call.image.base64)
          [] call.provider = "gemini" ->
               /\ DOMAIN ret.value.f = {"inlineData"}
               /\ DOMAIN Prop(ret.value, "inlineData").f = {"mimeType", "data"}
               /\ call.image.kind = "base64" =>
                     /\ Prop(Prop(ret.value, "inlineData"), "mimeType")
                          = JStr(call.image.mimeType)
                     /\ Prop(Prop(ret.value, "inlineData"), "data")
                          = JStr(call.image.base64)
          [] OTHER -> TRUE

\* ---- the svg heuristic on drawings ----

\* mockHeuristic has returned for a drawing
DrawingCalled == Called("mockHeuristic") /\ "drawing" \in DOMAIN call

\* the lines of the drawing d that are horizontal
HorizontalIn(d) == { i \in DOMAIN d.lines : d.lines[i][1] = d.lines[i][2] }

\* the sectors of a pie among the paths of d
ArcsIn(d) == { i \in DOMAIN d.paths : includes(d.paths[i], " A ") }

\* one of the path or fill signatures holds of d: its first path is the heart
SignatureRule(d) == Len(d.paths) >= 1 /\ includes(d.paths[1], "21.35")

\* the label of the chart-structure rule that holds of d, "" if none does
ChartLabel(d) ==
    IF d.rects >= 3 /\ Len(d.lines) >= 1 THEN "Gráfico de barras"
    ELSE IF d.rects >= 4 /\ Len(d.lines) = 0 /\ Len(d.paths) = 0 THEN "Gráfico de barras"
    ELSE IF Len(d.paths) >= 3 /\ Cardinality(ArcsIn(d)) >= 2 THEN "Gráfico de distribuição"
    ELSE IF d.rects >= 2 /\ Len(d.lines) >= 1 /\ d.text THEN "Diagrama de fluxo"
    ELSE ""

\* the numbers of elements a simple-icon signature asks for, the number of
\* rects left aside
MenuShape(d) ==
    /\ Len(d.lines) = 3 /\ Cardinality(HorizontalIn(d)) = 3
    /\ d.circle = "" /\ Len(d.paths) = 0

IconShapeLabel(d) ==
    IF d.circle # "" /\ Len(d.lines) = 1 /\ Len(d.paths) = 0 THEN "Pesquisar"
    ELSE IF MenuShape(d) THEN "Abrir menu de navegação"
    ELSE IF Len(d.lines) = 2 /\ d.circle = "" /\ Len(d.paths) = 0 THEN "Fechar"
    ELSE IF Len(d.paths) >= 1 /\ d.circle \in {"1", "2", "3", "4", "5"}
    THEN "Ver notificações"
    ELSE ""

IconLabels == {"Pesquisar", "Abrir menu de navegação", "Fechar", "Ver notificações"}

\* C21: for every svg with exactly three <line> elements, each with y1
\* equal to y2, and no circle, path or rect, the heuristic returns
\* isDecorative false and the title "Abrir menu de navegação", whatever its
\* other attributes (its viewBox among them).
C21_ThreeHorizontalLinesIsMenu ==
    (DrawingCalled /\ MenuShape(call.drawing) /\ call.drawing.rects = 0) =>
        /\ ~ret.value.value.isDecorative
        /\ ret.value.value.titleText = "Abrir menu de navegação"

\* the tests of the decorative result on what d holds
PlainDrawing(d) ==
    /\ ~d.text
    /\ d.rects + (IF d.circle = "" THEN 0 ELSE 1) <= 1
    /\ \A i \in DOMAIN d.paths : Len(d.paths[i]) < ComplexPathLen

\* C22: the heuristic returns decorative (isDecorative true, empty title and
\* description) only for markup that no earlier rule matches (chart
\* structure, simple-icon structure, path or fill signature, keyword table)
\* and that has no <text>, at most one rect, circle or ellipse and no path
\* data of 100 characters or more.
C22_DecorativeOnlyWhenNoRuleMatches ==
    (DrawingCalled /\ ret.value.value.isDecorative) =>
        /\ ret.value.value.titleText = "" /\ ret.value.value.descText = ""
        /\ PlainDrawing(call.drawing)
        /\ ChartLabel(call.drawing) = ""
        /\ ~(call.drawing.rects = 0 /\ IconShapeLabel(call.drawing) # "")
        /\ ~SignatureRule(call.drawing)
        /\ call.drawing.class = ""

\* the label of the phase of d in the given order of the phases, "" if no
\* phase matches; the simple-icon signatures for search, menu and close ask
\* for no rect
PhaseLabel(d, phase) ==
    CASE phase = "signature" -> IF SignatureRule(d) THEN "Adicionar aos favoritos" ELSE ""
      [] phase = "chart" -> ChartLabel(d)
      [] phase = "icon" ->
           IF d.rects = 0 \/ IconShapeLabel(d) = "Ver notificações"
           THEN IconShapeLabel(d) ELSE ""
      [] phase = "keyword" -> IF d.class = "btn-download" THEN "Baixar arquivo" ELSE ""

RECURSIVE EarliestLabel(_, _)
EarliestLabel(d, order) ==
    IF order = << >> THEN ""
    ELSE IF PhaseLabel(d, Head(order)) # "" THEN PhaseLabel(d, Head(order))
    ELSE EarliestLabel(d, Tail(order))

FallbackLabels == {"Gráfico de dados", "Logotipo Acme", "Ilustração", "Elemento gráfico"}

\* the result for d names the earliest matching phase of the order
LabelledInOrder(d, order) ==
    IF EarliestLabel(d, order) = ""
    THEN ret.value.value.titleText \in FallbackLabels
    ELSE ret.value.value.titleText = EarliestLabel(d, order)

\* C23: markup that matches rules of more than one phase is labelled by the
\* earliest matching phase in the order chart structure, simple-icon
\* structure, path or fill signature, keyword table, fallback; markup that
\* matches a chart-structure rule and the heart signature is labelled as
\* the chart.
C23_ChartBeforeSignature ==
    (DrawingCalled /\ ~ret.value.value.isDecorative) =>
        LabelledInOrder(call.drawing, << "chart", "icon", "signature", "keyword" >>)

\* C23, amended: markup that the decorative test, which runs first, does not
\* claim is labelled by the earliest matching phase in the order path or
\* fill signature, chart structure, simple-icon structure, keyword table,
\* fallback; markup that matches a chart-structure rule and the heart
\* signature is labelled as the heart.
C23_SignatureBeforeChart ==
    (DrawingCalled /\ ~ret.value.value.isDecorative) =>
        LabelledInOrder(call.drawing, << "signature", "chart", "icon", "keyword" >>)

\* returned for three rects, a line and the heart path: the heart's label
C23_Witness ==
    /\ DrawingCalled
    /\ call.drawing.rects = 3
    /\ Len(call.drawing.lines) = 1
    /\ SignatureRule(call.drawing)
    /\ ret.value.value.titleText = "Adicionar aos favoritos"

\* C24: no simple-icon structural signature (search, open navigation menu,
\* close, view notifications) is the result for an svg that holds a <rect>
\* or that matches a chart-structure rule.
C24_NoIconLabelWithRect ==
    ( /\ DrawingCalled
      /\ call.drawing.rects >= 1 \/ ChartLabel(call.drawing) # ""
      /\ call.drawing.class = "" )
    => ret.value.value.titleText \notin IconLabels

(***************************************************************************)
(* Claims about the img heuristic on pictures (checked under SpecImg).     *)
(* What a picture should be called is read off its description: the rule   *)
(* groups of its words, never the text of its tag.                         *)
(***************************************************************************)
PictureCalled == Called("mockImgHeuristic") /\ "picture" \in DOMAIN call

\* the suggestion mockImgHeuristic has for the source of p inside the tag
\* with the other attributes e
SuggestionWith(p, e) ==
    mockImgHeuristic(RenderSrc(p), RenderTag([p EXCEPT !.extra = e]))

\* C25: the result of the img heuristic is determined by the source path
\* alone: two <img> tags with the same src and different other attributes
\* get the same suggestion
C25_SrcAlone ==
    PictureCalled =>
        \A e \in ImgExtras : SuggestionWith(call.picture, e) = ret.value.value

\* C25 (amended): the result is determined by the source path and by the
\* decorative and icon markers in the text of the tag: two <img> tags with
\* the same src whose other attributes hold the same decorative marker and
\* the same first icon row get the same suggestion, whatever logo or
\* content words those attributes hold
C25_SrcAndTagMarkers ==
    PictureCalled =>
        \A e \in ImgExtras :
            (e.dec = call.picture.extra.dec /\ e.icon = call.picture.extra.icon)
            => SuggestionWith(call.picture, e) = ret.value.value

\* returned for a tag whose class is a content word, with a source that no
\* group matches: the name of the file, as for the tag without the class
C25_Witness ==
    /\ PictureCalled
    /\ call.picture.extra.text = " class=\"hero\""
    /\ call.img.src = "img/ferias.png"
    /\ ret.value.value.titleText = "Ferias"

WordsOf(p) == { p.words[i] : i \in DOMAIN p.words }

\* the rule groups the description of the picture p puts it in
PictureDec(p) == p.extra.dec \/ \E i \in DOMAIN p.words : p.words[i].dec

IconRows(p) ==
    { p.words[i].icon : i \in DOMAIN p.words } \cup { p.extra.icon }

PictureIcon(p) == MinOr0(IconRows(p) \ {0})

PictureIconTitle(p) ==
    IF p.extra.icon = PictureIcon(p) THEN p.extra.iconTitle
    ELSE (CHOOSE w \in WordsOf(p) : w.icon = PictureIcon(p)).iconTitle

PictureLogo(p) == \E i \in DOMAIN p.words : p.words[i].logo

PictureContent(p) == MinOr0({ p.words[i].content : i \in DOMAIN p.words } \ {0})

PicturePrefix(p) ==
    (CHOOSE w \in WordsOf(p) : w.content = PictureContent(p)).prefix

\* what is left of the file name once digits are taken out
PictureClean(p) ==
    IF Len(p.words) = 1 THEN p.words[1].clean
    ELSE IF p.words[1].clean = "" THEN p.words[2].clean
    ELSE IF p.words[2].clean = "" THEN p.words[1].clean
    ELSE p.words[1].clean \o " " \o p.words[2].clean

Placeholder == "[Descrição da imagem]"

\* the suggestion s is what the first group of p in the order decorative,
\* icon, logo, content, file name asks for
LabelledByFirstGroup(p, s) ==
    IF PictureDec(p) THEN s = Heur(TRUE, "", "")
    ELSE IF PictureIcon(p) # 0 THEN s = Heur(FALSE, PictureIconTitle(p), "")
    ELSE IF PictureLogo(p)
    THEN ~s.isDecorative /\ SubSeq(s.titleText, 1, 5) = "Logo "
    ELSE IF PictureContent(p) # 0
    THEN /\ ~s.isDecorative
         /\ SubSeq(s.titleText, 1, Len(PicturePrefix(p))) = PicturePrefix(p)
    ELSE IF Len(PictureClean(p)) > 2
    THEN /\ ~s.isDecorative
         /\ s.titleText # PictureClean(p)
         /\ toLowerCase(s.titleText) = PictureClean(p)
    ELSE s = Heur(FALSE, Placeholder, "")

\* C26: the img heuristic applies its groups in the order decorative
\* markers, icon names, logo and brand markers, content types, file name;
\* in a group the first matching row wins; a decorative marker wins over
\* every other marker; the placeholder is returned only when no group
\* matches and the cleaned file name has no usable token
C26_GroupsInOrder ==
    PictureCalled =>
        /\ LabelledByFirstGroup(call.picture, ret.value.value)
        /\ ret.value.value.titleText = Placeholder
           => /\ ~PictureDec(call.picture)
              /\ PictureIcon(call.picture) = 0
              /\ ~PictureLogo(call.picture)
              /\ PictureContent(call.picture) = 0
              /\ Len(PictureClean(call.picture)) <= 2

\* returned for a file named after a hamburger icon and a search icon, in
\* that order, with a logo word: the label of the search row, the first row
C26_Witness ==
    /\ PictureCalled
    /\ call.img.src = "img/hamburger-icon-search.png"
    /\ call.picture.extra.text = " id=\"logo\""
    /\ ret.value.value.titleText = "Pesquisar"

(***************************************************************************)
(* Claims about the choice of strategy (checked under Spec).               *)
(***************************************************************************)
\* a call with credentials for an input that the vision path can take: any
\* svg, an image at an external URL, an image of a document with a URI
VisionPossible ==
    /\ trace # << >>
    /\ HasCredentials(opts)
    /\ \/ req.kind = "svg"
       \/ req.kind = "img" /\ (isExternalUrl(req.imgSrc) \/ req.hasDocumentUri)

\* the call has gone to the text request at once
TextFirst == trace[1].ev = "request" /\ trace[1].strategy = "text"

\* C27: the strategy of a call is a function of the ClientConfig of the
\* client and of the input only: the editor's useVision setting, read after
\* the client was built, does not change whether the client attempts vision,
\* and svg and img requests of one client agree on it
C27_StrategyByClientConfig ==
    VisionPossible => (TextFirst <=> ~opts.useVision)

\* whether the vision path is open to the call: for an image the editor's
\* setting at the time of the call if it has a value, else (and for every
\* svg) the useVision of the ClientConfig
VisionEnabled ==
    IF req.kind = "img" /\ req.setting.t # "undefined"
    THEN req.setting = JBool(TRUE)
    ELSE opts.useVision

\* C27 (amended): an svg call attempts vision exactly if the ClientConfig
\* says so; an img call attempts it exactly if the editor's useVision
\* setting, read during the call, says so, and follows the ClientConfig
\* only if the setting has no value
C27_ImgStrategyBySetting ==
    VisionPossible => (TextFirst <=> ~VisionEnabled)

\* an image call of a client built without vision sends a vision request
\* because the setting is on
C27_Witness ==
    /\ VisionPossible
    /\ req.kind = "img"
    /\ ~opts.useVision
    /\ req.setting = JBool(TRUE)
    /\ trace[1].ev = "request"
    /\ trace[1].strategy = "vision"

(***************************************************************************)
(* Claims about the fix command (checked under SpecFix).                   *)
(***************************************************************************)
\* the document as it was scanned, with the change it saw since
UneditedText ==
    IF fix.change = "none" THEN RenderDoc(doc)
    ELSE ChangedText(RenderDoc(doc), fix.change)

\* the command has ended for a target
FixEnded == fix.pc = "done" /\ fix.target # << >>

\* C28: the fix flow looks at the cancellation token before the suggestion
\* request starts and after it returns, and nowhere else: a cancellation
\* before the first check sends no request, a request that has started runs
\* to its end with its degrade steps, a cancellation seen at either check
\* leaves the document unedited, and a cancellation after the second check
\* does not undo or prevent the edit
C28_CancellationAtChecksOnly ==
    /\ (FixEnded /\ fix.cancelAt = "started")
       => /\ trace = << >>
          /\ ~fix.applied
          /\ text = UneditedText
    /\ (FixEnded /\ fix.cancelAt = "requesting")
       => /\ pc = "done"
          /\ result.status = "resolved"
          /\ trace[Len(trace)].ev \in {"response", "heuristic"}
          /\ ~fix.applied
          /\ text = UneditedText
    /\ (FixEnded /\ fix.cancelAt \in {"never", "saving"})
       => /\ pc = "done"
          /\ fix.applied
    /\ fix.applied => fix.cancelAt \in {"never", "saving"}

\* cancelled while the vision request was in flight: the request failed,
\* the text request was sent and answered, and the document was not edited
C28_Witness ==
    /\ FixEnded
    /\ fix.kind = "svg"
    /\ fix.cancelAt = "requesting"
    /\ Len(trace) >= 4
    /\ trace[1].ev = "request" /\ trace[1].strategy = "vision"
    /\ trace[Len(trace)].ev = "response"
    /\ ~result.value.isDecorative
    /\ text = RenderDoc(doc)

\* C29: for every svg node that needs a fix and every suggestion, the edit
\* of buildWorkspaceEditForSuggestion applied to the scanned document leaves
\* a document whose scan has a node for that element that needs no fix, also
\* when the opening tag has an aria-hidden attribute of another value
C29_FixClearsItsDiagnostic ==
    (fix.kind = "svg" /\ fix.applied /\ fix.change = "none" /\ svgNodes.scanned)
    => \E i \in DOMAIN svgNodes.results :
          /\ svgNodes.results[i].start = fix.target[1].start
          /\ ~needsAccessibility(svgNodes.results[i])

\* the scanned document with the edit of the command in it
FixedScanned ==
    IF fix.kind = "svg"
    THEN afterSuggestion(FALSE, RenderDoc(doc), fix.target[1], result.value, fix.titleId)
    ELSE afterImgSuggestion(FALSE, RenderDoc(doc), fix.target[1], result.value)

\* C30: the edit applied after the suggestion returns changes the opening
\* tag of the element scanned before the request, also when the document
\* changed while the request was in flight: what is left is the changed
\* document with that element fixed, no other text is written over
C30_EditHitsTheScannedElement ==
    fix.applied
    => text = IF fix.change = "none" THEN FixedScanned
              ELSE ChangedText(FixedScanned, fix.change)

====
